---- MODULE Spec2Model ----
(***************************************************************************)
(* Batch file-operation engine of truba_gui's RemoteDirPanel:              *)
(* plan builders, the _FileOpWorker executor thread, the GUI-thread plan   *)
(* runner (_run_plan_with_progress), shutdown and the single-slot undo     *)
(* ledger.                                                                 *)
(*                                                                         *)
(* Strings that the code takes apart are modelled structurally:            *)
(*   - a path is the sequence of its "/"-separated components without the  *)
(*     leading empty one: "/d/a" = <<"d","a">>, "/d/a/" = <<"d","a","">>,  *)
(*     "/" = <<"">>, "" = <<>>;                                            *)
(*   - a message is a sequence of string tokens, "" = <<>>.                *)
(*                                                                         *)
(* Threads: the worker object lives in its own QThread; its signals reach  *)
(* the GUI thread as queued events (mainq) that are handled only while the *)
(* GUI thread runs an event loop; the dialog's canceled signal reaches the *)
(* worker as a queued slot call that is handled only by the worker         *)
(* thread's event loop, i.e. not while run() is executing.                 *)
(***************************************************************************)
EXTENDS Integers, Sequences, FiniteSets, TLC

VARIABLES
    runs,          \* one record per started batch (worker, thread, dialog, closure state)
    mainq,         \* queued signal deliveries to the GUI thread, FIFO
    mpc,           \* GUI thread position: "idle" | "exec" | "wait"
    cur,           \* run whose _run_plan_with_progress call is on the GUI stack, 0 = none
    active_plan,   \* RemoteDirPanel._active_plan
    active_step,   \* RemoteDirPanel._active_step
    active_title,  \* RemoteDirPanel._active_title
    active_worker, \* RemoteDirPanel._active_worker (run id, 0 = None)
    active_thread, \* RemoteDirPanel._active_thread (run id, 0 = None)
    last_undo,     \* RemoteDirPanel._last_undo (process-wide)
    snapshots,     \* payloads written to last_batch.json, in write order
    shown_errors,  \* raw texts passed to _show_op_error, in order
    remote,        \* remote filesystem: path -> "none" | "file" | "dir"
    local,         \* local filesystem: path -> "none" | "file" | "dir"
    caps,          \* which optional probes the backend object provides
    builds,        \* history of plan-builder invocations
    bld,           \* the plan builder on the GUI thread's stack, if any
    views          \* RemoteDirPanel.views: tab key -> the entries shown in the tab

vars == <<runs, mainq, mpc, cur, active_plan, active_step, active_title,
          active_worker, active_thread, last_undo, snapshots, shown_errors,
          remote, local, caps, builds, bld, views>>

(***************************************************************************)
(* Bounds                                                                  *)
(***************************************************************************)
MaxRuns == 1
MaxPlanLen == 2
MaxRenames == 1

(***************************************************************************)
(* Paths                                                                   *)
(***************************************************************************)
RECURSIVE RStrip(_)
RStrip(p) ==
    IF p # <<>> /\ p[Len(p)] = "" THEN RStrip(SubSeq(p, 1, Len(p) - 1)) ELSE p

Basename(p) == IF p = <<>> THEN "" ELSE p[Len(p)]

Dirname(p) == IF Len(p) <= 1 THEN <<>> ELSE RStrip(SubSeq(p, 1, Len(p) - 1))

IsPrefix(a, b) == Len(a) <= Len(b) /\ SubSeq(b, 1, Len(a)) = a

(***************************************************************************)
(* _PlannedOp, _UndoRecord                                                 *)
(***************************************************************************)
PlannedOp(op, src, dst, recursive) ==
    [op |-> op, src |-> src, dst |-> dst, recursive |-> recursive]

None == [kind |-> "none", moves |-> <<>>]

UndoRecord(kind, moves) == [kind |-> kind, moves |-> moves]

(***************************************************************************)
(* Messages                                                                *)
(***************************************************************************)
EmptyMsg == <<>>

\* "\u0130ptal edildi." in the source
CancelMsg == <<"Iptal edildi.">>

Label(i, total, op) ==
    <<ToString(i), "/", ToString(total), ": ",
      Basename(RStrip(IF op.dst # <<>> THEN op.dst ELSE op.src))>>

\* f"{label}\n{e}"
ErrorMsg_NoLabel(label, e) == e

ErrorMsg(label, e) == label \o <<"\n">> \o e

\* opaque texts a failing primitive can carry
Errors == {<<"Permission denied">>}

(***************************************************************************)
(* Filesystems.  Remote: sources live in /s, destinations in /d.  Local:    *)
(* upload sources live in /L, download targets in /T.  A filesystem maps   *)
(* the paths of its universe to "none" | "file" | "dir"; /s, /d, /L, /T    *)
(* themselves are directories and nothing else exists.                     *)
(***************************************************************************)
Names == {"a", "b"}
NewNames == {"n"}
Child == "f"
Grand == "g"

Roots == {<<"s">>, <<"d">>, <<"L">>, <<"T">>}

TreeUnder(root) ==
    {<<root, x>> : x \in Names \cup NewNames} \cup
    {<<root, x, c>> : x \in Names \cup NewNames, c \in {Child, Grand}} \cup
    {<<root, x, Child, Grand>> : x \in Names \cup NewNames}

RUniverse == TreeUnder("s") \cup TreeUnder("d")
LUniverse == TreeUnder("L") \cup TreeUnder("T")

Kind(fs, p) ==
    IF p \in DOMAIN fs THEN fs[p]
    ELSE IF p \in Roots \/ p = <<>> THEN "dir"
    ELSE "none"

\* a universe filled from a source-side root and a destination-side root;
\* source a is a file, a directory holding file f, or ("deep") a directory
\* holding directory f and file g, with a file g inside f
MkFs(univ, sroot, droot, srcA, dstA, dstB, dstN) ==
    [p \in univ |->
        IF p = <<sroot, "a">> THEN (IF srcA = "file" THEN "file" ELSE "dir")
        ELSE IF p = <<sroot, "a", Child>>
                THEN (CASE srcA = "file" -> "none" [] srcA = "dir" -> "file" [] OTHER -> "dir")
        ELSE IF p \in {<<sroot, "a", Grand>>, <<sroot, "a", Child, Grand>>}
                THEN (IF srcA = "deep" THEN "file" ELSE "none")
        ELSE IF p = <<sroot, "b">> THEN "file"
        ELSE IF p = <<droot, "a">> THEN dstA
        ELSE IF p = <<droot, "a", Child>> THEN (IF dstA = "dir" THEN "file" ELSE "none")
        ELSE IF p = <<droot, "b">> THEN dstB
        ELSE IF p = <<droot, "n">> THEN dstN
        ELSE "none"]

Worlds ==
    {[remote |-> MkFs(RUniverse, "s", "d", sd, da, db, dn),
      local  |-> MkFs(LUniverse, "L", "T", sd, da, db, dn)] :
        sd \in {"file", "dir", "deep"}, da \in {"none", "file", "dir"},
        db \in {"none", "file"}, dn \in {"none", "file"}}

\* the backend object is duck-typed: exists() and is_dir() are looked up at
\* call time and are not part of FilesBackend
CapsPool == {[exists |-> TRUE, is_dir |-> TRUE], [exists |-> FALSE, is_dir |-> FALSE]}

(***************************************************************************)
(* Read-only backend probes as the builders use them                       *)
(***************************************************************************)
\* SSHFilesBackend.listdir: succeeds only on a directory
ListdirOk(fs, p) == Kind(fs, p) = "dir"

\* try: exists = bool(files.exists(dst))
\* except: try: files.listdir(dst); exists = True  except: exists = False
ProbeExists(fs, cp, p) ==
    IF cp.exists THEN Kind(fs, p) # "none" ELSE ListdirOk(fs, p)

\* try: bool(files.exists(rp_base))  except: exists = False
ProbeExistsUpload(fs, cp, p) ==
    IF cp.exists THEN Kind(fs, p) # "none" ELSE FALSE

ProbeSrcIsDir_NoListing(fs, cp, p) ==
    IF cp.is_dir THEN Kind(fs, p) = "dir" ELSE FALSE

\* try: bool(files.is_dir(src))  except: try: listdir -> True  except: False
ProbeSrcIsDir(fs, cp, p) ==
    IF cp.is_dir THEN Kind(fs, p) = "dir" ELSE ListdirOk(fs, p)

\* try: isdir = bool(files.is_dir(dst))  except: isdir = False
ProbeIsDir(fs, cp, p) ==
    IF cp.is_dir THEN Kind(fs, p) = "dir" ELSE FALSE

\* every name there is, sorted
NameOrder == <<"a", "b", "f", "g", "n">>

\* the existing children of directory d, by name
Entries(fs, d) == SelectSeq(NameOrder, LAMBDA x : Kind(fs, d \o <<x>>) # "none")

(***************************************************************************)
(* The tabs of the panel                                                   *)
(***************************************************************************)
\* A file name is the sequence of its characters: "x.ISO" = <<"x",".","I","S","O">>.
\* the letters that occur in the names of the model, lower case and upper case
LowerCase == <<"a", "b", "c", "f", "g", "h", "i", "k", "l", "m", "n", "o", "p", "r", "s",
               "t", "u", "x", "z">>
UpperCase == <<"A", "B", "C", "F", "G", "H", "I", "K", "L", "M", "N", "O", "P", "R", "S",
               "T", "U", "X", "Z">>

\* str.lower() on one character
LowerChar(c) ==
    IF \E k \in 1..Len(UpperCase) : UpperCase[k] = c
       THEN LowerCase[CHOOSE k \in 1..Len(UpperCase) : UpperCase[k] = c]
       ELSE c

\* entry.name.lower()
Lower(name) == [k \in 1..Len(name) |-> LowerChar(name[k])]

\* str.endswith(suffix)
EndsWith(name, suffix) ==
    /\ Len(suffix) <= Len(name)
    /\ SubSeq(name, Len(name) - Len(suffix) + 1, Len(name)) = suffix

\* str.endswith((suffix, ...))
EndsWithAny(name, suffixes) == \E x \in suffixes : EndsWith(name, x)

IsoSuffixes == {<<".", "i", "s", "o">>}
ArchiveSuffixes ==
    {<<".", "z", "i", "p">>, <<".", "r", "a", "r">>, <<".", "7", "z">>,
     <<".", "t", "g", "z">>, <<".", "t", "a", "r", ".", "g", "z">>, <<".", "t", "a", "r">>}
SlurmSuffixes == {<<".", "s", "l", "u", "r", "m">>, <<".", "s", "b", "a", "t", "c", "h">>}

\* RemoteEntry, as far as the panel's tabs look at it
RemoteEntry(name, is_dir) == [name |-> name, is_dir |-> is_dir]

Category_CaseSensitive(entry) ==
    IF entry.is_dir THEN "folders"
    ELSE IF EndsWithAny(entry.name, IsoSuffixes) THEN "iso"
    ELSE IF EndsWithAny(entry.name, ArchiveSuffixes) THEN "archives"
    ELSE IF EndsWithAny(entry.name, SlurmSuffixes) THEN "slurm"
    ELSE "other"

\* _category(entry)
Category(entry) ==
    IF entry.is_dir THEN "folders"
    ELSE LET lower == Lower(entry.name)
         IN IF EndsWithAny(lower, IsoSuffixes) THEN "iso"
            ELSE IF EndsWithAny(lower, ArchiveSuffixes) THEN "archives"
            ELSE IF EndsWithAny(lower, SlurmSuffixes) THEN "slurm"
            ELSE "other"

TabKeys == {"all", "folders", "iso", "archives", "slurm", "other"}

\* v.clear() for every view
NoViews == [k \in TabKeys |-> <<>>]

\* for e in entries: add(views["all"], e); cat = _category(e);
\*                   if cat in views: add(views[cat], e)
RECURSIVE Filled(_, _)
Filled(vs, entries) ==
    IF entries = <<>> THEN vs
    ELSE LET e == Head(entries)
             cat == Category(e)
             withAll == [vs EXCEPT !["all"] = Append(@, e)]
         IN Filled(IF cat \in TabKeys THEN [withAll EXCEPT ![cat] = Append(@, e)]
                                       ELSE withAll,
                   Tail(entries))

\* refresh(), given what files.listdir_entries(current_dir) returned
Refreshed(entries) == Filled(NoViews, entries)

\* the directory the panel shows: the one pasted or uploaded into, or for a
\* direct delete or rename the one the selection was made in
CurrentDir(caller) == IF caller \in {"delete", "rename"} THEN <<"s">> ELSE <<"d">>

\* SSHFilesBackend.listdir_entries(d) on a filesystem of the model, whose
\* names are single letters
\* entries.sort(key=lambda e: (not e.is_dir, e.name.lower()))
ListdirEntries(fs, d) ==
    LET es == SelectSeq(Entries(fs, d), LAMBDA x : Kind(fs, d \o <<x>>) = "dir")
              \o SelectSeq(Entries(fs, d), LAMBDA x : Kind(fs, d \o <<x>>) # "dir")
    IN [k \in 1..Len(es) |-> RemoteEntry(<<es[k]>>, Kind(fs, d \o <<es[k]>>) = "dir")]

(***************************************************************************)
(* Mutating primitives: effect of a call that returns                      *)
(***************************************************************************)
Suffix(p, d) == SubSeq(p, Len(d) + 1, Len(p))

Put(fs, t, k) == [p \in DOMAIN fs |-> IF p = t THEN k ELSE fs[p]]

\* everything at or below t disappears
Prune(fs, t) ==
    [p \in DOMAIN fs |-> IF IsPrefix(t, p) THEN "none" ELSE fs[p]]

\* the tree at s of filesystem from appears at t of filesystem fs
Graft(fs, from, s, t) ==
    [p \in DOMAIN fs |->
        IF IsPrefix(t, p) THEN Kind(from, s \o Suffix(p, t)) ELSE fs[p]]

\* cp and mv put the source inside the destination when that is a directory
Target(fs, s, d) ==
    IF Kind(fs, d) = "dir" THEN d \o <<Basename(s)>> ELSE d

StepCanReturn_PlainMkdir(op, rfs, lfs) ==
    CASE op.op = "delete"       -> Kind(rfs, op.dst) # "dir" \/ op.recursive
      [] op.op = "copy"         -> /\ Kind(rfs, op.src) # "none"
                                   /\ Kind(rfs, op.src) = "dir" => op.recursive
      [] op.op = "move"         -> Kind(rfs, op.src) # "none"
      [] op.op = "upload"       -> Kind(lfs, op.src) = "file" /\ Kind(rfs, op.dst) # "dir"
      [] op.op = "download"     -> Kind(rfs, op.src) = "file" /\ Kind(lfs, op.dst) # "dir"
      [] op.op = "mkdir_remote" -> Kind(rfs, op.dst) = "none"
      [] op.op = "mkdir_local"  -> Kind(lfs, op.dst) = "none"
      [] op.op = "delete_local" -> TRUE
      [] OTHER                  -> FALSE

\* can the call return normally in this filesystem state?
StepCanReturn(op, rfs, lfs) ==
    CASE op.op = "delete"       -> Kind(rfs, op.dst) # "dir" \/ op.recursive
      [] op.op = "copy"         -> /\ Kind(rfs, op.src) # "none"
                                   /\ Kind(rfs, op.src) = "dir" => op.recursive
      [] op.op = "move"         -> Kind(rfs, op.src) # "none"
      [] op.op = "upload"       -> Kind(lfs, op.src) = "file" /\ Kind(rfs, op.dst) # "dir"
      [] op.op = "download"     -> Kind(rfs, op.src) = "file" /\ Kind(lfs, op.dst) # "dir"
      [] op.op = "mkdir_remote" -> Kind(rfs, op.dst) # "file"
      [] op.op = "mkdir_local"  -> Kind(lfs, op.dst) # "file"
      [] op.op = "delete_local" -> TRUE
      [] OTHER                  -> FALSE

\* can the call raise?  A remote call can always fail on the way; locally,
\* rmtree(ignore_errors=True) never raises, and os.makedirs(exist_ok=True)
\* does not on a directory that is there
StepCanRaise(op, rfs, lfs) ==
    /\ ~(op.op = "delete_local" /\ Kind(lfs, op.dst) = "dir")
    /\ ~(op.op = "mkdir_local" /\ Kind(lfs, op.dst) = "dir")

RemoteAfter(op, rfs) ==
    CASE op.op = "delete"       -> Prune(rfs, op.dst)
      [] op.op = "copy"         -> Graft(rfs, rfs, op.src, Target(rfs, op.src, op.dst))
      [] op.op = "move"         -> Graft(Prune(rfs, op.src), rfs, op.src,
                                         Target(rfs, op.src, op.dst))
      [] op.op = "upload"       -> Put(rfs, op.dst, "file")
      [] op.op = "mkdir_remote" -> Put(rfs, op.dst, "dir")
      [] OTHER                  -> rfs

LocalAfter(op, rfs, lfs) ==
    CASE op.op = "download"     -> Put(lfs, op.dst, "file")
      [] op.op = "mkdir_local"  -> Put(lfs, op.dst, "dir")
      [] op.op = "delete_local" -> Prune(lfs, op.dst)
      [] OTHER                  -> lfs

\* the backend primitive _FileOpWorker.run dispatches an op to
Primitive(op) ==
    CASE op.op = "delete"       -> "remove"
      [] op.op = "copy"         -> "copy"
      [] op.op = "move"         -> "move"
      [] op.op = "upload"       -> "upload"
      [] op.op = "download"     -> "download"
      [] op.op = "mkdir_remote" -> "mkdir"
      [] op.op = "mkdir_local"  -> "os.makedirs"
      [] op.op = "delete_local" -> "os.remove"
      [] OTHER                  -> "unknown"

(***************************************************************************)
(* One batch: _FileOpWorker + QThread + QProgressDialog + the closure      *)
(* state of _run_plan_with_progress                                        *)
(***************************************************************************)
NewRun(plan, title, caller) ==
    [plan          |-> plan,       \* _FileOpWorker._plan (the caller's list)
     title         |-> title,
     caller        |-> caller,     \* who called _run_plan_with_progress
     w_pc          |-> "loop",     \* run(): "loop" | "emit" | "call" | "inflight" | "done"
     w_i           |-> 1,          \* run(): i of enumerate(plan, start=1)
     w_cancel      |-> FALSE,      \* _FileOpWorker._cancel
     cancel_posted |-> FALSE,      \* a queued cancel() call waits in the worker thread
     dlg_open      |-> TRUE,       \* dlg.exec() has not been ended
     st_cancelled  |-> FALSE,      \* state["cancelled"]
     st_error      |-> EmptyMsg,   \* state["error"]
     progress      |-> <<>>,       \* history: progress signals emitted
     calls         |-> <<>>,       \* history: primitive calls started / returned / raised
     finished      |-> <<>>,       \* history: finished signals emitted
     req           |-> <<>>,       \* history: cancellation requests
     ret           |-> "pending",  \* return value of _run_plan_with_progress
     timed_out     |-> FALSE,      \* thread.wait(3000) gave up
     refresh       |-> "pending"]  \* the caller's listing once the batch is over

Total(r) == Len(runs[r].plan)

CurOp_First(r) == runs[r].plan[1]

CurOp(r) == runs[r].plan[runs[r].w_i]

\* run() stands between two steps: at the cancel check, with a step left
AtBoundary(r) == runs[r].w_pc = "loop" /\ runs[r].w_i <= Total(r)

CurLabel(r) == Label(runs[r].w_i, Total(r), CurOp(r))

\* history entry: a cancellation request; whether run() stood between two steps
\* when it was made, and the step whose backend call was in flight (0: none)
Request(r, by) ==
    [by |-> by, boundary |-> AtBoundary(r),
     during |-> IF runs[r].w_pc = "inflight" THEN runs[r].w_i ELSE 0]

\* history entry: the primitive and the arguments it is called with
CallEv(r, ev, err) ==
    [i |-> runs[r].w_i, ev |-> ev, prim |-> Primitive(CurOp(r)),
     src |-> CurOp(r).src, dst |-> CurOp(r).dst, recursive |-> CurOp(r).recursive,
     err |-> err]

ProgressEv(r, step, label) ==
    [run |-> r, sig |-> "progress", step |-> step, label |-> label,
     cancelled |-> FALSE, msg |-> EmptyMsg]

FinishedEv(r, cancelled, msg) ==
    [run |-> r, sig |-> "finished", step |-> 0, label |-> <<>>,
     cancelled |-> cancelled, msg |-> msg]

\* the entries of the primitives called, in call order
RECURSIVE CalledOf(_)
CalledOf(log) ==
    IF log = <<>> THEN <<>>
    ELSE IF Head(log).ev = "call" THEN <<Head(log)>> \o CalledOf(Tail(log))
    ELSE CalledOf(Tail(log))

\* number of steps whose primitive has returned normally
RECURSIVE ReturnedOf(_)
ReturnedOf(log) ==
    IF log = <<>> THEN 0
    ELSE (IF Head(log).ev = "return" THEN 1 ELSE 0) + ReturnedOf(Tail(log))

(***************************************************************************)
(* _FileOpWorker.run, one action per position                              *)
(***************************************************************************)
Finish_ConsumesPlan(r, rs, cancelled, msg) ==
    /\ runs' = [rs EXCEPT ![r].w_pc = "done",
                          ![r].plan = SubSeq(@, rs[r].w_i, Len(@)),
                          ![r].finished = Append(@, [cancelled |-> cancelled, msg |-> msg])]
    /\ mainq' = Append(mainq, FinishedEv(r, cancelled, msg))

\* self.finished.emit(cancelled, msg); return
Finish(r, rs, cancelled, msg) ==
    /\ runs' = [rs EXCEPT ![r].w_pc = "done",
                          ![r].finished = Append(@, [cancelled |-> cancelled, msg |-> msg])]
    /\ mainq' = Append(mainq, FinishedEv(r, cancelled, msg))

WorkerLoop_NoEmit(r) ==
    /\ runs[r].w_pc = "loop"
    /\ IF runs[r].w_i > Total(r)
          THEN Finish(r, runs, FALSE, EmptyMsg)
          ELSE IF runs[r].w_cancel
                  THEN Finish(r, runs, TRUE, CancelMsg)
                  ELSE /\ runs' = [runs EXCEPT ![r].w_pc = "call"]
                       /\ UNCHANGED mainq
    /\ UNCHANGED <<mpc, cur, active_plan, active_step, active_title, active_worker,
                   active_thread, last_undo, snapshots, shown_errors, remote, local,
                   caps, views, builds, bld>>

\* top of the for loop: exhausted, or the cancel check
WorkerLoop(r) ==
    /\ runs[r].w_pc = "loop"
    /\ IF runs[r].w_i > Total(r)
          THEN Finish(r, runs, FALSE, EmptyMsg)
          ELSE IF runs[r].w_cancel
                  THEN Finish(r, runs, TRUE, CancelMsg)
                  ELSE /\ runs' = [runs EXCEPT ![r].w_pc = "emit"]
                       /\ UNCHANGED mainq
    /\ UNCHANGED <<mpc, cur, active_plan, active_step, active_title, active_worker,
                   active_thread, last_undo, snapshots, shown_errors, remote, local,
                   caps, views, builds, bld>>

\* label = ...; self.progress.emit(i, label)
WorkerEmit(r) ==
    /\ runs[r].w_pc = "emit"
    /\ runs' = [runs EXCEPT ![r].w_pc = "call",
                            ![r].progress = Append(@, [step |-> runs[r].w_i,
                                                       label |-> CurLabel(r)])]
    /\ mainq' = Append(mainq, ProgressEv(r, runs[r].w_i, CurLabel(r)))
    /\ UNCHANGED <<mpc, cur, active_plan, active_step, active_title, active_worker,
                   active_thread, last_undo, snapshots, shown_errors, remote, local,
                   caps, views, builds, bld>>

\* the if/elif chain: enter the primitive, or raise RuntimeError("Unknown op")
WorkerCall(r) ==
    /\ runs[r].w_pc = "call"
    /\ IF Primitive(CurOp(r)) = "unknown"
          THEN Finish(r, runs, FALSE,
                      ErrorMsg(CurLabel(r), <<"Unknown op: ", CurOp(r).op>>))
          ELSE /\ runs' = [runs EXCEPT
                    ![r].w_pc = "inflight",
                    ![r].calls = Append(@, CallEv(r, "call", <<>>))]
               /\ UNCHANGED mainq
    /\ UNCHANGED <<mpc, cur, active_plan, active_step, active_title, active_worker,
                   active_thread, last_undo, snapshots, shown_errors, remote, local,
                   caps, views, builds, bld>>

\* the primitive returns: next iteration
WorkerReturn(r) ==
    /\ runs[r].w_pc = "inflight"
    /\ StepCanReturn(CurOp(r), remote, local)
    /\ remote' = RemoteAfter(CurOp(r), remote)
    /\ local' = LocalAfter(CurOp(r), remote, local)
    /\ runs' = [runs EXCEPT
            ![r].w_pc = "loop",
            ![r].w_i = @ + 1,
            ![r].calls = Append(@, CallEv(r, "return", <<>>))]
    /\ UNCHANGED <<mainq, mpc, cur, active_plan, active_step, active_title,
                   active_worker, active_thread, last_undo, snapshots, shown_errors,
                   caps, views, builds, bld>>

WorkerRaise_Escapes(r) ==
    /\ runs[r].w_pc = "inflight"
    /\ StepCanRaise(CurOp(r), remote, local)
    /\ \E e \in Errors :
          runs' = [runs EXCEPT ![r].calls = Append(@, CallEv(r, "raise", e)),
                               ![r].w_pc = "done"]
    /\ UNCHANGED <<mainq, mpc, cur, active_plan, active_step, active_title,
                   active_worker, active_thread, last_undo, snapshots, shown_errors,
                   remote, local, caps, views, builds, bld>>

\* except Exception as e: self.finished.emit(False, f"{label}\n{e}"); return
WorkerRaise(r) ==
    /\ runs[r].w_pc = "inflight"
    /\ StepCanRaise(CurOp(r), remote, local)
    /\ \E e \in Errors :
          Finish(r, [runs EXCEPT ![r].calls = Append(@, CallEv(r, "raise", e))],
                 FALSE, ErrorMsg(CurLabel(r), e))
    /\ UNCHANGED <<mpc, cur, active_plan, active_step, active_title, active_worker,
                   active_thread, last_undo, snapshots, shown_errors, remote, local,
                   caps, views, builds, bld>>

\* _FileOpWorker.cancel
Cancel(rs, r) == [rs EXCEPT ![r].w_cancel = TRUE]

\* the queued cancel() call is handled by the worker thread's event loop,
\* which runs only once run() has returned
WorkerDeliverCancel(r) ==
    /\ runs[r].w_pc = "done"
    /\ runs[r].cancel_posted
    /\ runs' = [Cancel(runs, r) EXCEPT ![r].cancel_posted = FALSE]
    /\ UNCHANGED <<mainq, mpc, cur, active_plan, active_step, active_title,
                   active_worker, active_thread, last_undo, snapshots, shown_errors,
                   remote, local, caps, views, builds, bld>>

(***************************************************************************)
(* GUI thread                                                              *)
(***************************************************************************)
Max(a, b) == IF a >= b THEN a ELSE b

\* self._active_plan[max(0, self._active_step - 1):]
Remaining(plan, step) == SubSeq(plan, Max(0, step - 1) + 1, Len(plan))

\* _persist_batch_state: the payload written to last_batch.json (ts left out),
\* with the writer and the worker's position at that moment as history
Persist(snaps, remaining, title, by, rs, worker, plan) ==
    Append(snaps,
           [title     |-> title,
            remaining |-> remaining,
            by        |-> by,
            run       |-> worker,
            plan      |-> plan,
            returned  |-> IF worker = 0 THEN 0 ELSE ReturnedOf(rs[worker].calls),
            called    |-> IF worker = 0 THEN 0 ELSE Len(CalledOf(rs[worker].calls))])

\* what the handlers of the GUI thread read and write
GuiState ==
    [runs |-> runs, plan |-> active_plan, step |-> active_step, title |-> active_title,
     worker |-> active_worker, thread |-> active_thread, snaps |-> snapshots]

\* on_progress(step, label), closure of run ev.run, up to its processEvents()
OnProgress(g, ev) ==
    [g EXCEPT !.step = ev.step,
              \* dlg.setValue(step): autoReset + autoClose hide the dialog at
              \* maximum, which ends dlg.exec()
              !.runs[ev.run].dlg_open = @ /\ ev.step # Len(g.runs[ev.run].plan)]

\* on_finished(cancelled, msg), closure of run ev.run
OnFinished(g, ev) ==
    [g EXCEPT !.runs[ev.run].st_cancelled = ev.cancelled,
              !.runs[ev.run].st_error = ev.msg,
              !.runs[ev.run].dlg_open = FALSE,
              !.snaps = IF ev.cancelled /\ g.plan # <<>>
                              /\ Remaining(g.plan, g.step) # <<>>
                           THEN Persist(g.snaps, Remaining(g.plan, g.step), g.title,
                                        "on_finished", g.runs, g.worker, g.plan)
                           ELSE @,
              !.thread = 0,
              !.worker = 0,
              !.plan = <<>>,
              !.step = 0,
              !.title = ""]

\* QApplication.processEvents() at the end of on_progress: the signals queued
\* by then are handled before on_progress returns, each on_progress among
\* them draining in turn
RECURSIVE Drain(_, _)
Drain(g, q) ==
    IF q = <<>> THEN g
    ELSE Drain(IF Head(q).sig = "progress" THEN OnProgress(g, Head(q))
                                           ELSE OnFinished(g, Head(q)),
               Tail(q))

\* the GUI thread's event loop (main loop or dlg.exec()) handles the next
\* queued signal
MainDeliver ==
    /\ mpc \in {"idle", "exec"}
    /\ bld.kind = "none" \/ bld.pc \in {"resolve", "rename"}
    /\ mainq # <<>>
    /\ LET g == IF Head(mainq).sig = "progress"
                   THEN Drain(OnProgress(GuiState, Head(mainq)), Tail(mainq))
                   ELSE OnFinished(GuiState, Head(mainq))
       IN /\ mainq' = IF Head(mainq).sig = "progress" THEN <<>> ELSE Tail(mainq)
          /\ runs' = g.runs
          /\ active_plan' = g.plan
          /\ active_step' = g.step
          /\ active_title' = g.title
          /\ active_worker' = g.worker
          /\ active_thread' = g.thread
          /\ snapshots' = g.snaps
    /\ UNCHANGED <<mpc, cur, last_undo, shown_errors, remote, local, caps, views, builds, bld>>

\* the user presses the dialog's cancel button: QProgressDialog hides itself and
\* emits canceled, connected to worker.cancel across threads
DlgCancel ==
    /\ mpc = "exec"
    /\ runs[cur].dlg_open
    /\ runs' = [runs EXCEPT
            ![cur].dlg_open = FALSE,
            ![cur].cancel_posted = TRUE,
            ![cur].req = Append(@, Request(cur, "dialog"))]
    /\ UNCHANGED <<mainq, mpc, cur, active_plan, active_step, active_title,
                   active_worker, active_thread, last_undo, snapshots, shown_errors,
                   remote, local, caps, views, builds, bld>>

\* dlg.exec() returns; thread.quit(); thread.wait(3000) begins
ExecReturn ==
    /\ mpc = "exec"
    /\ ~runs[cur].dlg_open
    /\ mpc' = "wait"
    /\ UNCHANGED <<runs, mainq, cur, active_plan, active_step, active_title,
                   active_worker, active_thread, last_undo, snapshots, shown_errors,
                   remote, local, caps, views, builds, bld>>

MovesOf_AllSteps(plan) == [k \in 1..Len(plan) |-> <<plan[k].src, plan[k].dst>>]

\* moves = [(p.src, p.dst) for p in plan if p.op == "move"]
RECURSIVE MovesOf(_)
MovesOf(plan) ==
    IF plan = <<>> THEN <<>>
    ELSE (IF Head(plan).op = "move" THEN <<<<Head(plan).src, Head(plan).dst>>>> ELSE <<>>)
         \o MovesOf(Tail(plan))

UndoAfter_KeepsRecord(caller, plan, ok, undo) ==
    IF ~ok THEN undo
    ELSE IF caller = "move"
            THEN (IF MovesOf(plan) # <<>> THEN UndoRecord("move", MovesOf(plan)) ELSE undo)
    ELSE undo

UndoAfter_ClearsAlways(caller, plan, ok, undo) ==
    IF ~ok THEN undo
    ELSE IF caller = "move"
            THEN (IF MovesOf(plan) # <<>> THEN UndoRecord("move", MovesOf(plan)) ELSE undo)
    ELSE None

\* what the caller of _run_plan_with_progress does with its result
UndoAfter(caller, plan, ok, undo) ==
    IF ~ok THEN undo
    ELSE IF caller = "move"
            THEN (IF MovesOf(plan) # <<>> THEN UndoRecord("move", MovesOf(plan)) ELSE undo)
    ELSE IF caller = "undo" THEN None
    ELSE undo

\* does the caller of _run_plan_with_progress go on to self.refresh(), which
\* calls files.listdir_entries(current_dir) on the GUI thread?  The paste and
\* drop handlers refresh whatever came of the batch, upload and undo if it was ok
RefreshAfter(caller, ok) ==
    \/ caller \in {"copy", "move"}
    \/ caller \in {"upload", "undo"} /\ ok

\* thread.wait(3000) returns (thread finished, or 3 s elapsed); the tail of
\* _run_plan_with_progress and the caller's continuation
WaitReturn ==
    /\ mpc = "wait"
    /\ LET run == runs[cur]
           ok == run.st_error = EmptyMsg /\ ~run.st_cancelled
       IN /\ shown_errors' = IF run.st_error # EmptyMsg
                                THEN Append(shown_errors, [run |-> cur, raw |-> run.st_error])
                                ELSE shown_errors
          /\ runs' = [runs EXCEPT ![cur].ret = IF ok THEN "true" ELSE "false",
                                  ![cur].timed_out = run.w_pc # "done",
                                  ![cur].refresh = IF RefreshAfter(run.caller, ok)
                                                      THEN "listdir_entries"
                                                      ELSE "none"]
          /\ last_undo' = UndoAfter(run.caller, run.plan, ok, last_undo)
          /\ views' = IF RefreshAfter(run.caller, ok)
                         THEN Refreshed(ListdirEntries(remote, CurrentDir(run.caller)))
                         ELSE views
    /\ mpc' = "idle"
    /\ cur' = 0
    /\ UNCHANGED <<mainq, active_plan, active_step, active_title, active_worker,
                   active_thread, snapshots, remote, local, caps, builds, bld>>

\* RemoteDirPanel.shutdown (the second definition, which is the one in effect)
Shutdown ==
    /\ mpc \in {"idle", "exec"}
    /\ bld.kind = "none"
    /\ active_worker # 0 \/ active_thread # 0 \/ active_plan # <<>>
    /\ runs' = IF active_worker = 0 THEN runs
               ELSE [Cancel(runs, active_worker) EXCEPT
                        ![active_worker].req = Append(@, Request(active_worker, "shutdown"))]
    /\ snapshots' =
          IF active_plan # <<>> /\ Remaining(active_plan, active_step) # <<>>
             THEN Persist(snapshots, Remaining(active_plan, active_step),
                          IF active_title # "" THEN active_title ELSE "shutdown",
                          "shutdown", runs, active_worker, active_plan)
             ELSE snapshots
    /\ active_thread' = 0
    /\ active_worker' = 0
    /\ active_plan' = <<>>
    /\ active_step' = 0
    /\ active_title' = ""
    /\ UNCHANGED <<mainq, mpc, cur, last_undo, shown_errors, remote, local, caps, views, builds, bld>>

\* _run_plan_with_progress up to dlg.exec(), for a non-empty plan
StartRun(plan, title, caller) ==
    /\ runs' = Append(runs, NewRun(plan, title, caller))
    /\ active_plan' = plan
    /\ active_step' = 0
    /\ active_title' = title
    /\ active_thread' = Len(runs) + 1
    /\ active_worker' = Len(runs) + 1
    /\ mpc' = "exec"
    /\ cur' = Len(runs) + 1

(***************************************************************************)
(* Plan builders: _build_copy_move_plan_with_conflicts, undo_last,         *)
(* _apply_local_upload, _apply_remote_download.  A builder runs on the GUI *)
(* thread; it stops at each modal prompt (the conflict box, the rename     *)
(* box), whose answer is an input.                                         *)
(***************************************************************************)
NoBuild ==
    [kind |-> "none", op |-> "", srcs |-> <<>>, dest |-> <<>>, i |-> 0,
     src |-> <<>>, name |-> "", dst |-> <<>>, isdir |-> FALSE,
     plan |-> <<>>, origin |-> <<>>, policy |-> "", pc |-> "",
     renamed |-> FALSE, decisions |-> <<>>, answers |-> <<>>,
     prompts |-> 0, renames |-> 0,
     undo_before |-> None, runs_before |-> 0]

\* locals at function entry: plan = [], policy = None
NewBuild(kind, op, srcs, dest) ==
    [NoBuild EXCEPT !.kind = kind, !.op = op, !.srcs = srcs, !.dest = dest,
                    !.i = 1, !.undo_before = last_undo, !.runs_before = Len(runs)]

\* for root, dirs, files_ls in os.walk(lp): ... (directories first, then files)
RECURSIVE UploadWalk(_, _)
UploadWalk(lp, rp) ==
    LET es == Entries(local, lp)
        D == SelectSeq(es, LAMBDA x : Kind(local, lp \o <<x>>) = "dir")
        F == SelectSeq(es, LAMBDA x : Kind(local, lp \o <<x>>) = "file")
        Mk(k) == <<PlannedOp("mkdir_remote", <<>>, rp \o <<D[k]>>, FALSE)>>
        Up(k) == (IF caps.exists /\ Kind(remote, rp \o <<F[k]>>) # "none"
                     THEN <<PlannedOp("delete", <<>>, rp \o <<F[k]>>,
                                      ProbeIsDir(remote, caps, rp \o <<F[k]>>))>>
                     ELSE <<>>)
                 \o <<PlannedOp("upload", lp \o <<F[k]>>, rp \o <<F[k]>>, FALSE)>>
        Sub(k) == UploadWalk(lp \o <<D[k]>>, rp \o <<D[k]>>)
        Cat(G(_), n) ==
            LET RECURSIVE C(_)
                C(k) == IF k > n THEN <<>> ELSE G(k) \o C(k + 1)
            IN C(1)
    IN Cat(Mk, Len(D)) \o Cat(Up, Len(F)) \o Cat(Sub, Len(D))

DownloadWalk_Flat(rp, lp) ==
    LET es == Entries(remote, rp)
        RECURSIVE C(_)
        C(k) == IF k > Len(es) THEN <<>>
                ELSE <<PlannedOp("download", rp \o <<es[k]>>, lp \o <<es[k]>>, FALSE)>>
                     \o C(k + 1)
    IN C(1)

\* for rpath, rel, r_is_dir in self._remote_walk(src_clean): ... (rel # "")
RECURSIVE DownloadWalk(_, _)
DownloadWalk(rp, lp) ==
    LET \* entries.sort(key=lambda e: (not e.is_dir, e.name.lower()))
        es == SelectSeq(Entries(remote, rp), LAMBDA x : Kind(remote, rp \o <<x>>) = "dir")
              \o SelectSeq(Entries(remote, rp), LAMBDA x : Kind(remote, rp \o <<x>>) # "dir")
        One(k) ==
            IF Kind(remote, rp \o <<es[k]>>) = "dir"
               THEN <<PlannedOp("mkdir_local", <<>>, lp \o <<es[k]>>, FALSE)>>
                    \o DownloadWalk(rp \o <<es[k]>>, lp \o <<es[k]>>)
               ELSE (IF Kind(local, lp \o <<es[k]>>) # "none"
                        THEN <<PlannedOp("delete_local", <<>>, lp \o <<es[k]>>, FALSE)>>
                        ELSE <<>>)
                    \o <<PlannedOp("download", rp \o <<es[k]>>, lp \o <<es[k]>>, FALSE)>>
        RECURSIVE C(_)
        C(k) == IF k > Len(es) THEN <<>> ELSE One(k) \o C(k + 1)
    IN C(1)

\* head of the loop body for source b.i: src_clean, name, dst, is-directory probe
BeginSource(b) ==
    IF b.i > Len(b.srcs) THEN b
    ELSE LET x == b.srcs[b.i]
         IN CASE b.kind = "copymove" ->
                   [b EXCEPT !.src = RStrip(x), !.name = Basename(RStrip(x)),
                             !.dst = RStrip(b.dest) \o <<Basename(RStrip(x))>>,
                             !.isdir = IF b.op = "copy"
                                          THEN ProbeSrcIsDir(remote, caps, RStrip(x))
                                          ELSE FALSE,
                             !.renamed = FALSE, !.pc = "probe"]
              [] b.kind = "undo" ->
                   [b EXCEPT !.src = RStrip(x[2]), !.name = Basename(RStrip(x[1])),
                             !.dst = RStrip(x[1]), !.isdir = FALSE,
                             !.renamed = FALSE, !.pc = "probe"]
              [] b.kind = "upload" ->
                   [b EXCEPT !.src = x, !.name = Basename(RStrip(x)),
                             !.dst = RStrip(b.dest) \o <<Basename(RStrip(x))>>,
                             !.isdir = Kind(local, x) = "dir",
                             !.renamed = FALSE, !.pc = "probe"]
              [] b.kind = "download" ->
                   [b EXCEPT !.src = RStrip(x), !.name = Basename(RStrip(x)),
                             !.dst = b.dest \o <<Basename(RStrip(x))>>,
                             !.isdir = IF caps.is_dir THEN Kind(remote, RStrip(x)) = "dir"
                                                      ELSE x # <<>> /\ x[Len(x)] = "",
                             !.renamed = FALSE, !.pc = "probe"]

\* the destination test at the top of the conflict loop
Conflict(b) ==
    CASE b.kind = "upload"   -> ProbeExistsUpload(remote, caps, b.dst)
      [] b.kind = "download" -> Kind(local, b.dst) # "none"
      [] OTHER               -> ProbeExists(remote, caps, b.dst)

Emit_WalkFirst(b) ==
    CASE b.kind = "copymove" -> <<PlannedOp(b.op, b.src, b.dst, b.isdir)>>
      [] b.kind = "undo"     -> <<PlannedOp("move", b.src, b.dst, FALSE)>>
      [] b.kind = "upload"   ->
            IF ~b.isdir THEN <<PlannedOp("upload", b.src, b.dst, FALSE)>>
            ELSE UploadWalk(b.src, b.dst)
                 \o <<PlannedOp("mkdir_remote", <<>>, b.dst, FALSE)>>
      [] b.kind = "download" ->
            IF ~b.isdir THEN <<PlannedOp("download", b.src, b.dst, FALSE)>>
            ELSE <<PlannedOp("mkdir_local", <<>>, b.dst, FALSE)>>
                 \o DownloadWalk(b.src, b.dst)

\* the steps planned for the current source once its destination is settled
Emit(b) ==
    CASE b.kind = "copymove" -> <<PlannedOp(b.op, b.src, b.dst, b.isdir)>>
      [] b.kind = "undo"     -> <<PlannedOp("move", b.src, b.dst, FALSE)>>
      [] b.kind = "upload"   ->
            IF ~b.isdir THEN <<PlannedOp("upload", b.src, b.dst, FALSE)>>
            ELSE <<PlannedOp("mkdir_remote", <<>>, b.dst, FALSE)>>
                 \o UploadWalk(b.src, b.dst)
      [] b.kind = "download" ->
            IF ~b.isdir THEN <<PlannedOp("download", b.src, b.dst, FALSE)>>
            ELSE <<PlannedOp("mkdir_local", <<>>, b.dst, FALSE)>>
                 \o DownloadWalk(b.src, b.dst)

\* the delete step that "overwrite" plans ahead of the source's own steps
DeleteStep(b) ==
    IF b.kind = "download"
       THEN PlannedOp("delete_local", <<>>, b.dst, b.isdir)
       ELSE PlannedOp("delete", <<>>, b.dst, ProbeIsDir(remote, caps, b.dst))

Planned_Prepends(b, steps) ==
    [b EXCEPT !.plan = steps \o @,
              !.origin = [k \in 1..Len(steps) |-> b.i] \o @]

\* plan.append(...) for the current source
Planned(b, steps) ==
    [b EXCEPT !.plan = @ \o steps,
              !.origin = @ \o [k \in 1..Len(steps) |-> b.i]]

\* the loop moves on to the next source
NextSource(b, decision) ==
    BeginSource([b EXCEPT !.decisions = Append(@, decision), !.i = @ + 1])

\* no conflict (any more): plan the source
OnFree(b) == NextSource(Planned(b, Emit(b)), IF b.renamed THEN "rename" ELSE "none")

\* action_simple == "overwrite"
OnOverwrite(b) == NextSource(Planned(b, <<DeleteStep(b)>> \o Emit(b)), "overwrite")

OnSkip_Plans(b) == NextSource(Planned(b, Emit(b)), "skip")

OnSkip_Overwrites(b) == OnOverwrite(b)

\* action_simple == "skip"
OnSkip(b) == NextSource(b, "skip")

OnNoRename_DropsPlan(b) ==
    NextSource([b EXCEPT !.plan = <<>>, !.origin = <<>>], "norename")

\* _prompt_rename returned None
OnNoRename(b) == NextSource(b, "norename")

\* _prompt_rename(dst_dir, name) returned dst_dir.rstrip("/") + "/" + new_name
OnRenamed(b, new_name) ==
    CASE b.kind = "undo" ->
            NextSource(Planned([b EXCEPT !.dst = Dirname(b.dst) \o <<new_name>>],
                               <<PlannedOp("move", b.src,
                                           Dirname(b.dst) \o <<new_name>>, FALSE)>>),
                       "rename")
      [] OTHER ->
            [b EXCEPT !.dst = RStrip(b.dest) \o <<new_name>>, !.renamed = TRUE,
                      !.pc = "probe"]

\* history record of a builder invocation that has come to its end
BuildRecord(b, result, run, undo) ==
    [kind |-> b.kind, op |-> b.op, srcs |-> b.srcs, dest |-> b.dest,
     decisions |-> b.decisions,
     answers |-> b.answers, prompts |-> b.prompts, plan |-> b.plan, origin |-> b.origin,
     result |-> result, run |-> run,
     undo_before |-> b.undo_before, undo_after |-> undo,
     runs_before |-> b.runs_before, runs_after |-> IF run = 0 THEN Len(runs) ELSE run]

\* dialog titles ("Kopyalaniyor..." etc. carry a dotless i in the source)
Title(b) ==
    CASE b.kind = "copymove" -> (IF b.op = "copy" THEN "Kopyalaniyor..." ELSE "Tasiniyor...")
      [] b.kind = "undo"     -> "Geri aliniyor..."
      [] b.kind = "upload"   -> "Yukleniyor..."
      [] b.kind = "download" -> "Indiriliyor..."

\* who calls _run_plan_with_progress
Caller(b) == IF b.kind = "copymove" THEN b.op ELSE b.kind

\* a copy/move that ends without a batch (no plan, or an empty one) is still
\* followed by the paste or drop handler's self.refresh(); the other builders
\* return without one
ViewsWithoutBatch(b) ==
    IF b.kind = "copymove"
       THEN Refreshed(ListdirEntries(remote, CurrentDir(b.op)))
       ELSE views

\* the loop over the sources is exhausted: the plan goes to _run_plan_with_progress
Built(b) ==
    /\ bld' = NoBuild
    /\ IF b.plan = <<>>
          THEN /\ last_undo' = IF b.kind = "undo" THEN None ELSE last_undo
               /\ builds' = Append(builds, BuildRecord(b, "empty", 0, last_undo'))
               /\ views' = ViewsWithoutBatch(b)
               /\ UNCHANGED <<runs, mpc, cur, active_plan, active_step, active_title,
                              active_worker, active_thread>>
          ELSE /\ StartRun(b.plan, Title(b), Caller(b))
               /\ builds' = Append(builds, BuildRecord(b, "plan", Len(runs) + 1, last_undo))
               /\ UNCHANGED <<last_undo, views>>
    /\ UNCHANGED <<mainq, snapshots, shown_errors, remote, local, caps>>

Continue_Removes(b) ==
    IF b.i > Len(b.srcs)
       THEN Built(b)
       ELSE /\ bld' = b
            /\ remote' = IF \E j \in 1..Len(b.plan) : b.plan[j].op = "delete"
                             THEN Prune(remote, b.plan[CHOOSE j \in 1..Len(b.plan) :
                                                         b.plan[j].op = "delete"].dst)
                             ELSE remote
            /\ UNCHANGED <<runs, mainq, mpc, cur, active_plan, active_step,
                           active_title, active_worker, active_thread, last_undo,
                           snapshots, shown_errors, local, caps, views, builds>>

\* the builder goes on with state b, or is through
Continue(b) ==
    IF b.i > Len(b.srcs)
       THEN Built(b)
       ELSE /\ bld' = b
            /\ UNCHANGED <<runs, mainq, mpc, cur, active_plan, active_step,
                           active_title, active_worker, active_thread, last_undo,
                           snapshots, shown_errors, remote, local, caps, views, builds>>

Aborted_AsSkip(b) == Continue(OnSkip(b))

\* return None / return / return False out of the builder
Aborted(b) ==
    /\ bld' = NoBuild
    /\ builds' = Append(builds, BuildRecord([b EXCEPT !.decisions = Append(@, "cancel")],
                                            "none", 0, last_undo))
    /\ views' = ViewsWithoutBatch(b)
    /\ UNCHANGED <<runs, mainq, mpc, cur, active_plan, active_step, active_title,
                   active_worker, active_thread, last_undo, snapshots, shown_errors,
                   remote, local, caps>>

\* the if-chain on action_simple; the answer is logged for the current source:
\* fresh from the conflict box or taken from the policy, and whether it set
\* the policy
Decide(b0, action) ==
    LET b == [b0 EXCEPT !.answers =
                 Append(@, [i |-> b0.i, action |-> action, dst |-> b0.dst,
                            fresh |-> b0.pc = "resolve",
                            all |-> b0.pc = "resolve" /\ b0.policy # ""])]
    IN CASE action = "cancel"    -> Aborted(b)
         [] action = "skip"      -> Continue(OnSkip(b))
         [] action = "rename"    -> Continue([b EXCEPT !.pc = "rename", !.renames = @ + 1])
         [] action = "overwrite" -> Continue(OnOverwrite(b))

BuildProbe_AsksAgain ==
    /\ bld.kind # "none"
    /\ bld.pc = "probe"
    /\ IF ~Conflict(bld) THEN Continue(OnFree(bld))
       ELSE Continue([bld EXCEPT !.pc = "resolve", !.prompts = @ + 1])

\* top of the conflict loop: probe the destination, act on a sticky policy or
\* open the conflict box
BuildProbe ==
    /\ bld.kind # "none"
    /\ bld.pc = "probe"
    /\ IF ~Conflict(bld) THEN Continue(OnFree(bld))
       ELSE IF bld.policy = "" THEN Continue([bld EXCEPT !.pc = "resolve", !.prompts = @ + 1])
       ELSE Decide(bld, bld.policy)

\* _resolve_conflict returns: the user's button and the apply-to-all box
BuildResolve ==
    /\ bld.kind # "none"
    /\ bld.pc = "resolve"
    /\ \E action \in {"overwrite", "skip", "rename", "cancel"}, all \in BOOLEAN :
          Decide([bld EXCEPT !.policy = IF all THEN action ELSE ""], action)

\* _prompt_rename returns: a new name, or nothing (cancelled or blank)
BuildRename ==
    /\ bld.kind # "none"
    /\ bld.pc = "rename"
    /\ \/ Continue(OnNoRename(bld))
       \/ /\ bld.renames <= MaxRenames
          /\ \E new_name \in Names \cup NewNames : Continue(OnRenamed(bld, new_name))

\* _apply_copy_move_with_conflicts(op, src_paths, dest_dir)
ApplyCopyMove(op, src_paths, dest_dir) ==
    /\ mpc = "idle"
    /\ bld.kind = "none"
    /\ Len(builds) < MaxRuns
    /\ bld' = BeginSource(NewBuild("copymove", op, src_paths, dest_dir))
    /\ UNCHANGED <<runs, mainq, mpc, cur, active_plan, active_step, active_title,
                   active_worker, active_thread, last_undo, snapshots, shown_errors,
                   remote, local, caps, views, builds>>

\* _apply_local_upload(local_paths, dest_dir)
ApplyLocalUpload(local_paths, dest_dir) ==
    /\ mpc = "idle"
    /\ bld.kind = "none"
    /\ Len(builds) < MaxRuns
    /\ bld' = BeginSource(NewBuild("upload", "upload", local_paths, dest_dir))
    /\ UNCHANGED <<runs, mainq, mpc, cur, active_plan, active_step, active_title,
                   active_worker, active_thread, last_undo, snapshots, shown_errors,
                   remote, local, caps, views, builds>>

\* _apply_remote_download(src_paths, target_dir)
ApplyRemoteDownload(src_paths, target_dir) ==
    /\ mpc = "idle"
    /\ bld.kind = "none"
    /\ Len(builds) < MaxRuns
    /\ bld' = BeginSource(NewBuild("download", "download", src_paths, target_dir))
    /\ UNCHANGED <<runs, mainq, mpc, cur, active_plan, active_step, active_title,
                   active_worker, active_thread, last_undo, snapshots, shown_errors,
                   remote, local, caps, views, builds>>

Reversed_Keeps(q) == q

\* list(reversed(rec.moves))
RECURSIVE Reversed(_)
Reversed(q) == IF q = <<>> THEN <<>> ELSE Append(Reversed(Tail(q)), Head(q))

UndoLast_OnEmptyRebuilds ==
    /\ mpc = "idle"
    /\ bld.kind = "none"
    /\ IF last_undo = None
          THEN /\ bld' = BeginSource(NewBuild("undo", "move",
                            <<<<(<<"s", "a">>), (<<"d", "a">>)>>>>, <<>>))
               /\ UNCHANGED last_undo
          ELSE /\ Len(builds) < MaxRuns
               /\ IF last_undo.kind # "move" \/ last_undo.moves = <<>>
                     THEN /\ last_undo' = None
                          /\ UNCHANGED bld
                     ELSE /\ bld' = BeginSource(NewBuild("undo", "move",
                                                         Reversed(last_undo.moves), <<>>))
                          /\ UNCHANGED last_undo
    /\ UNCHANGED <<runs, mainq, mpc, cur, active_plan, active_step, active_title,
                   active_worker, active_thread, snapshots, shown_errors,
                   remote, local, caps, views, builds>>

\* undo_last(): nothing to undo, a record that cannot be undone, or the start
\* of the inverse plan
UndoLast ==
    /\ mpc = "idle"
    /\ bld.kind = "none"
    /\ IF last_undo = None
          THEN UNCHANGED <<bld, last_undo>>
          ELSE /\ Len(builds) < MaxRuns
               /\ IF last_undo.kind # "move" \/ last_undo.moves = <<>>
                     THEN /\ last_undo' = None
                          /\ UNCHANGED bld
                     ELSE /\ bld' = BeginSource(NewBuild("undo", "move",
                                                         Reversed(last_undo.moves), <<>>))
                          /\ UNCHANGED last_undo
    /\ UNCHANGED <<runs, mainq, mpc, cur, active_plan, active_step, active_title,
                   active_worker, active_thread, snapshots, shown_errors,
                   remote, local, caps, views, builds>>

(***************************************************************************)
(* Operations the panel performs itself on the GUI thread, without a plan  *)
(* and without a batch: _delete_paths and the context menu's rename        *)
(***************************************************************************)
\* try: recursive = bool(files.is_dir(rp))
\* except: try: files.listdir(rp); recursive = True  except: rp.endswith("/")
ProbeDeleteRecursive(fs, cp, rp) ==
    IF cp.is_dir THEN Kind(fs, RStrip(rp)) = "dir"
    ELSE IF ListdirOk(fs, RStrip(rp)) THEN TRUE
    ELSE rp # <<>> /\ rp[Len(rp)] = ""

\* the step files.remove(rp.rstrip("/"), recursive=recursive) amounts to
DirectRemove(fs, cp, rp) ==
    PlannedOp("delete", <<>>, RStrip(rp), ProbeDeleteRecursive(fs, cp, rp))

\* the remote filesystem once the first n removals of the loop have returned
RECURSIVE RemovedUpTo(_, _, _)
RemovedUpTo(fs, paths, n) ==
    IF n = 0 THEN fs
    ELSE LET before == RemovedUpTo(fs, paths, n - 1)
         IN RemoteAfter(DirectRemove(before, caps, paths[n]), before)

\* can the n-th removal of the loop return?
RemoveReturns(fs, paths, n) ==
    LET before == RemovedUpTo(fs, paths, n - 1)
    IN StepCanReturn(DirectRemove(before, caps, paths[n]), before, local)

\* _delete_paths(paths), confirmed with Yes: n removals return; either all of
\* them did and the panel refreshes, or the next one raises out of the handler
DeletePaths(paths) ==
    /\ mpc = "idle"
    /\ bld.kind = "none"
    /\ Len(builds) < MaxRuns
    /\ \E n \in 0..Len(paths) :
          /\ \A k \in 1..n : RemoveReturns(remote, paths, k)
          /\ remote' = RemovedUpTo(remote, paths, n)
          /\ builds' = Append(builds,
                  BuildRecord([NewBuild("delete", "delete", paths, <<>>)
                                  EXCEPT !.i = n + 1],
                              IF n = Len(paths) THEN "done" ELSE "raised",
                              0, last_undo))
          /\ views' = IF n = Len(paths)
                         THEN Refreshed(ListdirEntries(remote', CurrentDir("delete")))
                         ELSE views
    /\ UNCHANGED <<runs, mainq, mpc, cur, active_plan, active_step, active_title,
                   active_worker, active_thread, last_undo, snapshots, shown_errors,
                   local, caps, bld>>

\* SFTPClient.rename: the source must exist and the new path must be free
RenameCanReturn(fs, old, dst) == Kind(fs, old) # "none" /\ Kind(fs, dst) = "none"

\* the context menu's rename of the one selected item to new_name: the
\* backend renames and the panel refreshes, or the error goes to a message box
RenameItem(old, new_name) ==
    /\ mpc = "idle"
    /\ bld.kind = "none"
    /\ Len(builds) < MaxRuns
    /\ LET dst == Dirname(RStrip(old)) \o <<new_name>>
       IN \E returns \in BOOLEAN :
             /\ returns => RenameCanReturn(remote, RStrip(old), dst)
             /\ remote' = IF returns
                             THEN Graft(Prune(remote, RStrip(old)), remote, RStrip(old), dst)
                             ELSE remote
             /\ builds' = Append(builds,
                     BuildRecord(NewBuild("rename", "rename", <<old>>, dst),
                                 IF returns THEN "done" ELSE "raised", 0, last_undo))
             /\ views' = IF returns
                            THEN Refreshed(ListdirEntries(remote', CurrentDir("rename")))
                            ELSE views
    /\ UNCHANGED <<runs, mainq, mpc, cur, active_plan, active_step, active_title,
                   active_worker, active_thread, last_undo, snapshots, shown_errors,
                   local, caps, bld>>

(***************************************************************************)
(* Specification of one batch over an arbitrary plan                       *)
(***************************************************************************)
\* one step of every kind the executor dispatches on, and one it does not know
StepList ==
    <<PlannedOp("delete", <<>>, <<"d", "a">>, FALSE),
      PlannedOp("copy", <<"s", "a">>, <<"d", "n">>, TRUE),
      PlannedOp("move", <<"s", "b">>, <<"d", "b">>, FALSE),
      PlannedOp("upload", <<"L", "b">>, <<"d", "b">>, FALSE),
      PlannedOp("download", <<"s", "b">>, <<"T", "b">>, FALSE),
      PlannedOp("mkdir_remote", <<>>, <<"d", "a">>, FALSE),
      PlannedOp("mkdir_local", <<>>, <<"T", "a">>, FALSE),
      PlannedOp("delete_local", <<>>, <<"T", "a">>, FALSE),
      PlannedOp("chmod", <<>>, <<"d", "a">>, FALSE)>>

StepAt(k) == StepList[((k - 1) % Len(StepList)) + 1]

\* plans of every length up to MaxPlanLen: runs of consecutive kinds starting at
\* every kind, and one step repeated
PlanPool ==
    {[k \in 1..n |-> StepAt(i + k - 1)] : i \in 1..Len(StepList), n \in 1..MaxPlanLen}
    \cup {[k \in 1..n |-> StepAt(3)] : n \in 1..MaxPlanLen}

\* source "a" is a directory with a child, and so is destination "a"
ExecWorlds ==
    {w \in Worlds : /\ w.remote[<<"d", "b">>] = "none"
                    /\ w.remote[<<"d", "n">>] = "none"
                    /\ w.remote[<<"s", "a">>] = "dir"
                    /\ w.remote[<<"s", "a", Child>>] = "file"
                    /\ w.remote[<<"d", "a">>] = "dir"}

InitWith(w, c) ==
    /\ runs = <<>>
    /\ mainq = <<>>
    /\ mpc = "idle"
    /\ cur = 0
    /\ active_plan = <<>>
    /\ active_step = 0
    /\ active_title = ""
    /\ active_worker = 0
    /\ active_thread = 0
    /\ snapshots = <<>>
    /\ shown_errors = <<>>
    /\ remote = w.remote
    /\ local = w.local
    /\ caps = c
    /\ builds = <<>>
    /\ bld = NoBuild
    /\ views = NoViews

InitExecutor ==
    /\ \E w \in ExecWorlds : InitWith(w, [exists |-> TRUE, is_dir |-> TRUE])
    /\ last_undo = None

\* _run_plan_with_progress(plan, title) on a plan of any shape
RunPlan ==
    /\ mpc = "idle"
    /\ runs = <<>>
    /\ \E plan \in PlanPool : StartRun(plan, "batch", "none")
    /\ UNCHANGED <<mainq, last_undo, snapshots, shown_errors, remote, local, caps, views, builds, bld>>

Gui ==
    \/ MainDeliver
    \/ DlgCancel
    \/ ExecReturn
    \/ WaitReturn
    \/ Shutdown

Workers ==
    \/ \E r \in DOMAIN runs : WorkerLoop(r)
    \/ \E r \in DOMAIN runs : WorkerEmit(r)
    \/ \E r \in DOMAIN runs : WorkerCall(r)
    \/ \E r \in DOMAIN runs : WorkerReturn(r)
    \/ \E r \in DOMAIN runs : WorkerRaise(r)
    \/ \E r \in DOMAIN runs : WorkerDeliverCancel(r)

NextExecutor ==
    \/ RunPlan
    \/ Workers
    \/ Gui

SpecExecutor == InitExecutor /\ [][NextExecutor]_vars

\* every primitive call of a started worker returns or raises, and the worker
\* thread keeps being scheduled
FairSpecExecutor == SpecExecutor /\ WF_vars(Workers)

(***************************************************************************)
(* Properties of the Batch Executor                                        *)
(***************************************************************************)
SameArgs(c, op) ==
    /\ c.prim = Primitive(op)
    /\ c.src = op.src
    /\ c.dst = op.dst
    /\ c.recursive = op.recursive

\* C1: the primitives called by a run are, in order, those of steps 1, 2, ...
\* of its plan with the plan's arguments (a prefix: nothing skipped, repeated
\* or reordered), and a step's primitive is entered only after the previous
\* step's primitive has returned.
C1_ExecutedIsPlanPrefix ==
    \A r \in DOMAIN runs :
        LET log == runs[r].calls
            called == CalledOf(log)
        IN /\ Len(called) <= Total(r)
           /\ \A k \in 1..Len(called) :
                 called[k].i = k /\ SameArgs(called[k], runs[r].plan[k])
           /\ \A k \in 1..Len(log) :
                 IF log[k].ev = "call"
                    THEN k = 1 \/ log[k - 1].ev = "return"
                    ELSE k > 1 /\ log[k - 1].ev = "call" /\ log[k - 1].i = log[k].i

C1_Witness ==
    \E r \in DOMAIN runs :
        /\ runs[r].w_pc = "done"
        /\ ReturnedOf(runs[r].calls) >= 2
        /\ runs[r].plan[1] # runs[r].plan[2]

\* C2: once a cancellation has been requested (dialog or shutdown) while the
\* worker stood between step k and step k+1, the worker calls no further
\* primitive, and when the run ends it reports cancelled = true.
C2_Step ==
    \A r \in DOMAIN runs :
        (\E q \in 1..Len(runs[r].req) : runs[r].req[q].boundary)
        => /\ runs'[r].calls = runs[r].calls
           /\ runs'[r].finished # runs[r].finished =>
                 runs'[r].finished[Len(runs'[r].finished)].cancelled

C2_CancelAtBoundary == [][C2_Step]_vars

\* C3: a primitive that raises at step i is the last thing the run calls, and
\* the run has finished with (False, label of step i + "\n" + error text).
C3_ErrorStopsBatch ==
    \A r \in DOMAIN runs :
        LET log == runs[r].calls
        IN \A k \in 1..Len(log) :
              log[k].ev = "raise" =>
                 /\ k = Len(log)
                 /\ runs[r].w_pc = "done"
                 /\ runs[r].finished =
                       <<[cancelled |-> FALSE,
                          msg |-> Label(log[k].i, Total(r), runs[r].plan[log[k].i])
                                  \o <<"\n">> \o log[k].err]>>

C3_Witness ==
    \E r \in DOMAIN runs :
        /\ runs[r].calls # <<>>
        /\ runs[r].calls[Len(runs[r].calls)].ev = "raise"
        /\ runs[r].calls[Len(runs[r].calls)].i < Total(r)

\* C4: the progress signals of a run carry the indices 1, 2, 3, ... in that
\* order (so each step at most once), and a step's primitive is entered only
\* in a state in which that step's progress signal has already been emitted.
C4_State ==
    \A r \in DOMAIN runs :
        LET pr == runs[r].progress
            called == CalledOf(runs[r].calls)
        IN /\ \A k \in 1..Len(pr) : pr[k].step = k
           /\ \A k \in 1..Len(called) : called[k].i <= Len(pr)

C4_Step ==
    \A r \in DOMAIN runs :
        (Len(runs'[r].calls) > Len(runs[r].calls)
            /\ runs'[r].calls[Len(runs'[r].calls)].ev = "call")
        => /\ runs'[r].calls[Len(runs'[r].calls)].i <= Len(runs[r].progress)
           /\ runs'[r].progress = runs[r].progress

C4_ProgressBeforeStep == []C4_State /\ [][C4_Step]_vars

C4_Witness ==
    \E r \in DOMAIN runs :
        /\ Len(runs[r].progress) >= 2
        /\ Len(CalledOf(runs[r].calls)) >= 2

\* C5: a run emits finished exactly once, when it ends, and never calls a
\* primitive or emits progress afterwards; the signal is (False, "") exactly
\* when every step's primitive returned; every started run reaches that point
\* (a raising primitive ends the run through finished, not through an
\* exception leaving run()).
C5_State ==
    \A r \in DOMAIN runs :
        LET f == runs[r].finished
        IN /\ Len(f) <= 1
           /\ (runs[r].w_pc = "done") <=> (Len(f) = 1)
           /\ Len(f) = 1 =>
                 ((f[1] = [cancelled |-> FALSE, msg |-> EmptyMsg])
                    <=> (ReturnedOf(runs[r].calls) = Total(r)))

C5_Step ==
    \A r \in DOMAIN runs :
        runs[r].finished # <<>> =>
            /\ runs'[r].finished = runs[r].finished
            /\ runs'[r].calls = runs[r].calls
            /\ runs'[r].progress = runs[r].progress

C5_Eventually ==
    \A r \in 1..MaxRuns :
        (Len(runs) >= r) ~> (Len(runs) >= r /\ Len(runs[r].finished) = 1)

C5_ExactlyOneFinished == []C5_State /\ [][C5_Step]_vars /\ C5_Eventually

C5_Witness ==
    \E r \in DOMAIN runs :
        /\ runs[r].finished = <<[cancelled |-> FALSE, msg |-> EmptyMsg]>>
        /\ Total(r) >= 2

\* C6: a run that ended by cancellation finished with (True, "") and the caller
\* surfaces no error for it.
C6_CancelReportedDistinctly ==
    \A r \in DOMAIN runs :
        /\ \A k \in 1..Len(runs[r].finished) :
              runs[r].finished[k].cancelled => runs[r].finished[k].msg = EmptyMsg
        /\ runs[r].st_cancelled =>
              \A k \in 1..Len(shown_errors) : shown_errors[k].run # r

\* C7: once the stop of a batch by cancellation or by a step error has been
\* handled (on_finished) with a step of its plan not executed, a snapshot for
\* that batch has been persisted.
C7_SnapshotOnAbnormalStop ==
    \A r \in DOMAIN runs :
        ((runs[r].st_cancelled \/ runs[r].st_error # EmptyMsg)
            /\ Len(CalledOf(runs[r].calls)) < Total(r))
        => \E k \in 1..Len(snapshots) : snapshots[k].run = r

\* C8: the remaining list of a snapshot written for a batch that stops with
\* steps not started is the suffix of the batch's plan that
\* holds no step whose primitive had returned and every step that was not
\* started.
C8_RemainingIsUnexecutedSuffix ==
    \A k \in 1..Len(snapshots) :
        LET s == snapshots[k]
            n == Len(s.plan)
            m == Len(s.remaining)
        IN s.called < n =>
              /\ m <= n
              /\ s.remaining = SubSeq(s.plan, n - m + 1, n)
              /\ m <= n - s.returned
              /\ m >= n - s.called

(***************************************************************************)
(* Specification of the plan builders: one invocation on every selection   *)
(* with every answer, up to the hand-over of the plan to                   *)
(* _run_plan_with_progress                                                 *)
(***************************************************************************)
\* a and b were moved from /s to /d earlier on (the ledger is process-wide)
EarlierMove ==
    UndoRecord("move", <<<<(<<"s", "a">>), (<<"d", "a">>)>>,
                         <<(<<"s", "b">>), (<<"d", "b">>)>>>>)

\* what the user can have selected, in selection order
SrcPool(root) ==
    {<<<<root, "a">>>>, <<<<root, "b">>>>, <<<<root, "a">>, <<root, "b">>>>,
     <<<<root, "b">>, <<root, "a">>>>}

InitBuilders ==
    \E w \in Worlds, c \in CapsPool, u \in {None, EarlierMove} :
        /\ InitWith(w, c)
        /\ last_undo = u

\* one builder invocation per behaviour
NextBuilders ==
    \/ /\ builds = <<>>
       /\ \E op \in {"copy", "move"}, srcs \in SrcPool("s") :
             ApplyCopyMove(op, srcs, <<"d">>)
    \/ /\ builds = <<>>
       /\ \E srcs \in SrcPool("L") : ApplyLocalUpload(srcs, <<"d">>)
    \/ /\ builds = <<>>
       /\ \E srcs \in SrcPool("s") : ApplyRemoteDownload(srcs, <<"T">>)
    \/ /\ builds = <<>>
       /\ UndoLast
    \/ BuildProbe
    \/ BuildResolve
    \/ BuildRename

SpecBuilders == InitBuilders /\ [][NextBuilders]_vars

(***************************************************************************)
(* Specification of the panel: builders, batches, shutdown, undo ledger,   *)
(* for a selection of one item whose destination is taken                  *)
(***************************************************************************)
\* a was moved from /s to /d earlier on, and /s/a exists again
EarlierMoveOfA == UndoRecord("move", <<<<(<<"s", "a">>), (<<"d", "a">>)>>>>)

\* a is a file on both sides, nothing else is in the destinations
PanelWorlds ==
    {w \in Worlds : /\ w.remote[<<"s", "a">>] = "file"
                    /\ w.remote[<<"d", "a">>] = "file"
                    /\ w.remote[<<"d", "b">>] = "none"
                    /\ w.remote[<<"d", "n">>] = "none"}

Init ==
    \E w \in PanelWorlds, c \in CapsPool, u \in {None, EarlierMoveOfA} :
        /\ InitWith(w, c)
        /\ last_undo = u

Next ==
    \/ \E op \in {"copy", "move"} : ApplyCopyMove(op, <<(<<"s", "a">>)>>, <<"d">>)
    \/ ApplyLocalUpload(<<(<<"L", "a">>)>>, <<"d">>)
    \/ ApplyRemoteDownload(<<(<<"s", "a">>)>>, <<"T">>)
    \/ UndoLast
    \/ BuildProbe
    \/ BuildResolve
    \/ BuildRename
    \/ Workers
    \/ Gui

Spec == Init /\ [][Next]_vars

(***************************************************************************)
(* Specification of undo: one undo_last() on the record of an earlier move  *)
(* of a and b from /s to /d, its inverse plan run as a batch, and           *)
(* undo_last() again on an empty ledger                                     *)
(***************************************************************************)
\* a and b are files in /d; /s/a and /s/b are gone, or were made again since
UndoWorlds ==
    {[remote |-> Put(Put(w.remote, <<"s", "a">>, ka), <<"s", "b">>, kb),
      local  |-> w.local] :
        w \in {x \in Worlds : /\ x.remote[<<"s", "a">>] = "file"
                              /\ x.remote[<<"d", "a">>] = "file"
                              /\ x.remote[<<"d", "b">>] = "file"
                              /\ x.remote[<<"d", "n">>] = "none"},
        ka \in {"none", "file"}, kb \in {"none", "file"}}

InitUndo ==
    \E w \in UndoWorlds, c \in CapsPool :
        /\ InitWith(w, c)
        /\ last_undo = EarlierMove

NextUndo ==
    \/ /\ builds = <<>> \/ last_undo = None
       /\ UndoLast
    \/ BuildProbe
    \/ BuildResolve
    \/ BuildRename
    \/ Workers
    \/ Gui

SpecUndo == InitUndo /\ [][NextUndo]_vars

(***************************************************************************)
(* Specification of the ledger: one operation of the panel (a copy or move *)
(* batch, an upload, a download, a direct delete, a rename) from start to  *)
(* end, on a ledger that is empty or holds the record of an earlier batch  *)
(***************************************************************************)
\* an earlier batch moved b from /d to /s
FirstBatch == UndoRecord("move", <<<<(<<"d", "b">>), (<<"s", "b">>)>>>>)

\* a and b are files in /s; a may be in /d as well
LedgerWorlds ==
    {w \in Worlds : /\ w.remote[<<"s", "a">>] = "file"
                    /\ w.remote[<<"d", "a">>] \in {"none", "file"}
                    /\ w.remote[<<"d", "b">>] = "none"
                    /\ w.remote[<<"d", "n">>] = "none"}

\* one item selected, or two
Selections(root) == {<<<<root, "a">>>>, <<<<root, "a">>, <<root, "b">>>>}

InitLedger ==
    \E w \in LedgerWorlds, c \in CapsPool, u \in {None, FirstBatch} :
        /\ InitWith(w, c)
        /\ last_undo = u

NextLedger ==
    \/ /\ builds = <<>>
       /\ \E op \in {"copy", "move"}, srcs \in Selections("s") :
             ApplyCopyMove(op, srcs, <<"d">>)
    \/ /\ builds = <<>>
       /\ ApplyLocalUpload(<<(<<"L", "a">>)>>, <<"d">>)
    \/ /\ builds = <<>>
       /\ ApplyRemoteDownload(<<(<<"s", "a">>)>>, <<"T">>)
    \/ /\ builds = <<>>
       /\ \E paths \in Selections("s") : DeletePaths(paths)
    \/ /\ builds = <<>>
       /\ \E new_name \in Names \cup NewNames : RenameItem(<<"s", "a">>, new_name)
    \/ BuildProbe
    \/ BuildResolve
    \/ BuildRename
    \/ Workers
    \/ Gui

SpecLedger == InitLedger /\ [][NextLedger]_vars

(***************************************************************************)
(* Specification of a paste or drop into the directory the items are in:   *)
(* one copy/move build of a selection of /s with /s as the destination     *)
(***************************************************************************)
InitInPlace ==
    /\ \E w \in Worlds, c \in CapsPool : InitWith(w, c)
    /\ last_undo = None

NextInPlace ==
    \/ /\ builds = <<>>
       /\ \E op \in {"copy", "move"}, srcs \in SrcPool("s") :
             ApplyCopyMove(op, srcs, <<"s">>)
    \/ BuildProbe
    \/ BuildResolve
    \/ BuildRename

SpecInPlace == InitInPlace /\ [][NextInPlace]_vars

(***************************************************************************)
(* Specification of the tabs: refresh() on what the server lists           *)
(***************************************************************************)
\* str.upper() on one character
UpperChar(c) ==
    IF \E k \in 1..Len(LowerCase) : LowerCase[k] = c
       THEN UpperCase[CHOOSE k \in 1..Len(LowerCase) : LowerCase[k] = c]
       ELSE c

\* a suffix as users spell it: .iso, .ISO, .Iso
Spellings(sfx) ==
    {sfx,
     [k \in 1..Len(sfx) |-> UpperChar(sfx[k])],
     [k \in 1..Len(sfx) |-> IF k = 2 THEN UpperChar(sfx[k]) ELSE sfx[k]]}

\* what precedes the suffix: nothing, a letter, a name with a dot of its own
Stems == {<<>>, <<"x">>, <<"a", ".", "b">>}

\* names that end in one of the suffixes in some spelling, and names that do
\* not: no dot, a longer or shorter extension, the suffix in the middle
NamePool ==
    {stem \o v : stem \in Stems,
                 v \in UNION {Spellings(x) :
                                x \in IsoSuffixes \cup ArchiveSuffixes \cup SlurmSuffixes}}
    \cup {<<"x">>, <<"i", "s", "o">>, <<"t", "a", "r">>, <<"x", ".", "g", "z">>,
          <<"x", ".", "t", "x", "t">>, <<"x", ".", "i", "s", "o", "x">>,
          <<"x", ".", "i", "s", "o", ".", "b", "a", "k">>,
          <<"x", ".", "z", "i", "p", ".", "I", "S", "O">>,
          <<"x", ".", "t", "a", "r", ".", "b", "z">>, <<".", "s", "h">>,
          <<"x", ".", "S", "l", "u", "r", "m", "s">>}

EntryPool == {RemoteEntry(name, d) : name \in NamePool, d \in BOOLEAN}

\* refresh() with a connected session: files.listdir_entries(current_dir)
\* returned entries
Refresh(entries) ==
    /\ mpc = "idle"
    /\ bld.kind = "none"
    /\ views' = Refreshed(entries)
    /\ UNCHANGED <<runs, mainq, mpc, cur, active_plan, active_step, active_title,
                   active_worker, active_thread, last_undo, snapshots, shown_errors,
                   remote, local, caps, builds, bld>>

InitTabs ==
    /\ \E w \in LedgerWorlds, c \in CapsPool : InitWith(w, c)
    /\ last_undo = None

\* the directory is empty or holds one entry
NextTabs == \E entries \in {<<>>} \cup {<<x>> : x \in EntryPool} : Refresh(entries)

SpecTabs == InitTabs /\ [][NextTabs]_vars

(***************************************************************************)
(* Properties of the plan builders                                         *)
(***************************************************************************)
\* the path of source i of a build, as the builder cleans it
SourcePath(bd, i) ==
    IF bd.kind = "undo" THEN RStrip(bd.srcs[i][2]) ELSE RStrip(bd.srcs[i])

\* the sources of a build for which the resolver (or the sticky policy) said a
Answered(bd, a) ==
    {bd.answers[k].i : k \in {j \in 1..Len(bd.answers) : bd.answers[j].action = a}}

NoStepFor(bd, i) ==
    \A j \in 1..Len(bd.plan) :
        /\ bd.origin[j] # i
        /\ ~IsPrefix(SourcePath(bd, i), bd.plan[j].src)

\* C9: the plan a builder is assembling, returns or hands to the executor
\* holds no step for a source whose conflict was answered with skip, and a
\* build in which a conflict was answered with cancel ends without a plan
\* and without a batch.
C9_NoSkippedOrCancelledInPlan ==
    /\ \A i \in Answered(bld, "skip") : NoStepFor(bld, i)
    /\ \A k \in 1..Len(builds) :
          LET bd == builds[k]
          IN /\ \A i \in Answered(bd, "skip") : NoStepFor(bd, i)
             /\ bd.run # 0 =>
                   /\ bd.result = "plan"
                   /\ runs[bd.run].plan = bd.plan
             /\ Answered(bd, "cancel") # {} => bd.result = "none" /\ bd.run = 0

C9_Witness ==
    \E k \in 1..Len(builds) :
        /\ builds[k].run # 0
        /\ Len(builds[k].srcs) = 2
        /\ Answered(builds[k], "skip") = {2}
        /\ builds[k].prompts = 1
        /\ builds[k].plan # <<>>

\* C10: a copy/move build in which a conflict was answered with cancel returns
\* None whatever it had planned so far; no batch is created for it and the
\* undo ledger is what it was when the build began.
C10_CancelAbortsCopyMove ==
    \A k \in 1..Len(builds) :
        LET bd == builds[k]
        IN (bd.kind = "copymove" /\ Answered(bd, "cancel") # {}) =>
              /\ bd.result = "none"
              /\ bd.run = 0
              /\ bd.runs_after = bd.runs_before
              /\ bd.undo_after = bd.undo_before

C10_Witness ==
    \E k \in 1..Len(builds) :
        /\ builds[k].kind = "copymove"
        /\ Answered(builds[k], "cancel") = {2}
        /\ builds[k].plan # <<>>
        /\ builds[k].undo_before # None
        /\ builds[k].result = "none"

\* dst = dst_dir.rstrip("/") + "/" + name, for source i of a build
FirstDst(bd, i) ==
    IF bd.kind = "undo" THEN RStrip(bd.srcs[i][1])
    ELSE RStrip(bd.dest) \o <<Basename(RStrip(bd.srcs[i]))>>

\* the builds that came to an end, and the one in progress
AllBuilds == {builds[k] : k \in 1..Len(builds)} \cup (IF bld.kind = "none" THEN {} ELSE {bld})

EndedBuilds == {builds[k] : k \in 1..Len(builds)}

OverwritePlanned(bd, a, j) ==
    /\ j < Len(bd.plan)
    /\ bd.origin[j] = a.i
    /\ bd.origin[j + 1] = a.i
    /\ bd.plan[j].op = "delete"
    /\ bd.plan[j].dst = a.dst
    /\ bd.plan[j + 1].op = bd.op
    /\ bd.plan[j + 1].dst = a.dst

OverwriteAnswers(bd) ==
    {bd.answers[k] : k \in {n \in 1..Len(bd.answers) : bd.answers[n].action = "overwrite"}}

\* C12: in a copy/move build, every overwrite answer has put a delete step for
\* the colliding destination directly in front of the copy/move step that
\* writes it, and that delete step is recursive exactly when the destination
\* is a directory on the remote.
C12_DeleteBeforeOverwrite ==
    \A bd \in AllBuilds :
        bd.kind = "copymove" =>
            \A a \in OverwriteAnswers(bd) :
                \E j \in 1..Len(bd.plan) :
                    /\ OverwritePlanned(bd, a, j)
                    /\ bd.plan[j].recursive <=> (Kind(remote, a.dst) = "dir")

\* would the builder see a collision at path p?
Collides(bd, p) == Conflict([kind |-> bd.kind, dst |-> p])

\* the answers given from the conflict box among the first n
FreshUpTo(bd, n) == {k \in 1..n : bd.answers[k].fresh}

PlannedSources(bd) == {bd.origin[j] : j \in 1..Len(bd.plan)}

\* the sources of a build for which an answer (fresh or sticky) was obtained
AnsweredSources(bd) == {bd.answers[k].i : k \in 1..Len(bd.answers)}

\* C14: in the copy/move, upload and undo builders, a source whose computed
\* destination exists on the remote (as a file or as a directory) has a step
\* in the plan only after the resolver's answer for it was obtained, whether
\* or not the backend has exists().
C14_ConflictAlwaysResolved ==
    \A bd \in AllBuilds :
        bd.kind \in {"copymove", "upload", "undo"} =>
            \A i \in PlannedSources(bd) :
                Kind(remote, FirstDst(bd, i)) # "none" => i \in AnsweredSources(bd)

\* path p lies inside directory d
InsideOf(p, d) == IsPrefix(d, p) /\ Len(p) > Len(d)

\* in plan pl every step of the kinds in ops that writes inside a directory
\* made by a mk step comes after that mk step, and every directory level
\* between root and a step's destination has its mk step before the step
DirsFirst(pl, mk, ops, root) ==
    /\ \A j, k \in 1..Len(pl) :
          (pl[j].op = mk /\ pl[k].op \in ops /\ InsideOf(pl[k].dst, pl[j].dst)) => j < k
    /\ \A k \in 1..Len(pl) :
          pl[k].op \in ops =>
              \A n \in (Len(root) + 1)..(Len(pl[k].dst) - 1) :
                  \E j \in 1..(k - 1) :
                      pl[j].op = mk /\ pl[j].dst = SubSeq(pl[k].dst, 1, n)

\* C15: in every plan of the upload builder, the mkdir_remote step of a
\* directory comes strictly before every upload, delete and mkdir_remote step
\* whose destination is inside that directory, and no step writes into a
\* directory below the destination directory that has no mkdir_remote step
\* before it.
C15_UploadDirsFirst ==
    \A bd \in AllBuilds :
        bd.kind = "upload" =>
            DirsFirst(bd.plan, "mkdir_remote", {"upload", "delete", "mkdir_remote"},
                      RStrip(bd.dest))

C15_Witness ==
    \E bd \in EndedBuilds :
        /\ bd.kind = "upload"
        /\ bd.result = "plan"
        /\ \E j, k, m \in 1..Len(bd.plan) :
              /\ bd.plan[j] = PlannedOp("mkdir_remote", <<>>, <<"d", "a", "f">>, FALSE)
              /\ bd.plan[k].op = "upload"
              /\ bd.plan[k].dst = <<"d", "a", "f", "g">>
              /\ bd.plan[m].op = "delete"
              /\ bd.plan[m].dst = <<"d", "a">>

\* local_dst of source i: the destination of its first step that is not the
\* delete_local of an overwrite
BaseDst(bd, i) ==
    LET js == {j \in 1..Len(bd.plan) : bd.origin[j] = i /\ bd.plan[j].op # "delete_local"}
        j0 == CHOOSE j \in js : \A x \in js : j <= x
    IN bd.plan[j0].dst

\* source i was planned as a directory
PlannedAsDir(bd, i) ==
    \E j \in 1..Len(bd.plan) :
        /\ bd.origin[j] = i
        /\ bd.plan[j].op = "mkdir_local"
        /\ bd.plan[j].dst = BaseDst(bd, i)

\* the steps of source i put what is at src + rel on the remote at local_dst + rel
StructureKept(bd, i) ==
    LET sp == SourcePath(bd, i)
        base == BaseDst(bd, i)
    IN /\ \A k \in 1..Len(bd.plan) :
             (bd.origin[k] = i /\ bd.plan[k].op = "download") =>
                 /\ IsPrefix(sp, bd.plan[k].src)
                 /\ bd.plan[k].dst = base \o Suffix(bd.plan[k].src, sp)
       /\ PlannedAsDir(bd, i) =>
             \A p \in DOMAIN remote :
                 (InsideOf(p, sp) /\ Kind(remote, p) # "none") =>
                     \E k \in 1..Len(bd.plan) :
                         /\ bd.origin[k] = i
                         /\ bd.plan[k].dst = base \o Suffix(p, sp)
                         /\ IF Kind(remote, p) = "dir"
                               THEN bd.plan[k].op = "mkdir_local"
                               ELSE bd.plan[k].op = "download" /\ bd.plan[k].src = p

MoveSteps(bd) == {j \in 1..Len(bd.plan) : bd.plan[j].op = "move"}

\* the position in the undo record of the pair that step j was planned for
RecIndex(bd, j) ==
    CHOOSE r \in 1..Len(bd.undo_before.moves) :
        bd.undo_before.moves[r] = bd.srcs[bd.origin[j]]

\* C17: in the inverse plan of a record m1..mn the move steps stand in the
\* reverse of the recorded order; the step for a pair (src, dst) moves from
\* dst, and to src unless the pair was renamed; every pair that was neither
\* skipped nor left unnamed has its move step once the plan is complete.
C17_InversePlanReversed ==
    \A bd \in AllBuilds :
        bd.kind = "undo" =>
            /\ \A j \in MoveSteps(bd) :
                  LET m == bd.undo_before.moves[RecIndex(bd, j)]
                  IN /\ bd.plan[j].src = RStrip(m[2])
                     /\ bd.origin[j] \notin Answered(bd, "rename")
                           => bd.plan[j].dst = RStrip(m[1])
            /\ \A j, k \in MoveSteps(bd) : j < k => RecIndex(bd, j) > RecIndex(bd, k)
            /\ (bd \in EndedBuilds /\ bd.result # "none") =>
                  \A i \in 1..Len(bd.srcs) :
                      bd.decisions[i] \notin {"skip", "norename"}
                      => \E j \in MoveSteps(bd) : bd.origin[j] = i

C17_Witness ==
    \E bd \in EndedBuilds :
        /\ bd.kind = "undo"
        /\ bd.undo_before = EarlierMove
        /\ bd.plan = <<PlannedOp("move", <<"d", "b">>, <<"s", "b">>, FALSE),
                       PlannedOp("delete", <<>>, <<"s", "a">>, TRUE),
                       PlannedOp("move", <<"d", "a">>, <<"s", "a">>, FALSE)>>

\* move(from = dst, to = src) for pair r of the record a build began with
InverseOf(bd, r) ==
    PlannedOp("move", RStrip(bd.undo_before.moves[r][2]),
              RStrip(bd.undo_before.moves[r][1]), FALSE)

\* an undo of a record of two moves that met no conflict and was handed over
UndoOfTwoFree(bd) ==
    /\ bd.kind = "undo"
    /\ Len(bd.undo_before.moves) = 2
    /\ bd.answers = <<>>
    /\ bd.result = "plan"

\* the primitives called by run r so far are the steps of plan pl, in order
AttemptsInOrder(r, pl) ==
    LET called == CalledOf(runs[r].calls)
    IN /\ Len(called) <= Len(pl)
       /\ \A n \in 1..Len(called) : called[n].i = n /\ SameArgs(called[n], pl[n])

\* C18 (as amended): for a recorded move batch [(a,b), (c,d)] and no conflict
\* at undo time, the inverse plan is move(d,c) followed by move(b,a), and the
\* batch attempts its steps in that order.
C18_UndoOrder ==
    \A bd \in EndedBuilds :
        UndoOfTwoFree(bd) =>
            /\ bd.plan = <<InverseOf(bd, 2), InverseOf(bd, 1)>>
            /\ AttemptsInOrder(bd.run, bd.plan)

\* C18 (as stated): the inverse plan is move(b,a) followed by move(d,c).
C18_UndoOrder_AsStated ==
    \A bd \in EndedBuilds :
        UndoOfTwoFree(bd) =>
            /\ bd.plan = <<InverseOf(bd, 1), InverseOf(bd, 2)>>
            /\ AttemptsInOrder(bd.run, bd.plan)

C18_Witness ==
    \E bd \in EndedBuilds :
        /\ UndoOfTwoFree(bd)
        /\ bd.undo_before = EarlierMove
        /\ Len(CalledOf(runs[bd.run].calls)) = 2
        /\ ReturnedOf(runs[bd.run].calls) = 2
        /\ runs[bd.run].ret = "true"

\* undo_last() has returned from the batch of build bd
UndoReturned(bd) == bd.kind = "undo" /\ bd.run # 0 /\ runs[bd.run].ret # "pending"

\* run r went through its whole plan: finished(False, "") and nothing else
RanToCompletion(r) ==
    /\ ReturnedOf(runs[r].calls) = Len(runs[r].plan)
    /\ runs[r].finished = <<[cancelled |-> FALSE, msg |-> EmptyMsg]>>

C19_State ==
    \A bd \in EndedBuilds :
        (UndoReturned(bd) /\ RanToCompletion(bd.run)) => last_undo = None

C19_Step ==
    (last_undo = None /\ mpc = "idle" /\ bld.kind = "none")
    => /\ last_undo' = None
       /\ bld' = bld
       /\ builds' = builds
       /\ Len(runs') = Len(runs)

\* C19: once undo_last() has returned from an inverse plan that ran to
\* completion with no cancellation and no error, the undo record is None; and
\* with the record None an undo starts no build and no batch and leaves the
\* record None.
C19_UndoClearsLedger == []C19_State /\ [][C19_Step]_vars

C19_Witness ==
    \E bd \in EndedBuilds :
        /\ UndoReturned(bd)
        /\ RanToCompletion(bd.run)
        /\ Len(bd.plan) = 3
        /\ bd.undo_before = EarlierMove
        /\ last_undo = None
        /\ mpc = "idle"

\* a primitive of run r raised
StepFailed(r) == \E n \in 1..Len(runs[r].calls) : runs[r].calls[n].ev = "raise"

\* the worker of run r stopped at its cancel check
StoppedByCancel(r) ==
    \E n \in 1..Len(runs[r].finished) : runs[r].finished[n].cancelled

\* C20: after an undo that was cancelled at a conflict box, or whose batch the
\* user cancelled from the progress dialog, or whose batch was stopped by a
\* cancel or by the error of a step, the undo record is the record the undo
\* began with.
C20_FailedUndoKeepsRecord ==
    \A bd \in EndedBuilds :
        bd.kind = "undo" =>
            /\ Answered(bd, "cancel") # {} => last_undo = bd.undo_before
            /\ (/\ UndoReturned(bd)
                /\ \/ StepFailed(bd.run)
                   \/ StoppedByCancel(bd.run)
                   \/ \E n \in 1..Len(runs[bd.run].req) : runs[bd.run].req[n].by = "dialog")
               => last_undo = bd.undo_before

(***************************************************************************)
(* Properties of the undo ledger                                           *)
(***************************************************************************)
\* the pairs of a sequence of moves
PairsOf(moves) == {moves[k] : k \in 1..Len(moves)}

\* the caller of the batch of build bd has got its result back
BatchOver(bd) == bd.run # 0 /\ runs[bd.run].ret # "pending"

\* the steps of run r whose primitive has returned
DoneSteps(r) ==
    {runs[r].calls[n].i : n \in {m \in 1..Len(runs[r].calls) : runs[r].calls[m].ev = "return"}}

\* build bd is a move batch that has moved something, begun on a ledger that
\* held a record
SecondMoveBatch(bd) ==
    /\ bd.kind = "copymove" /\ bd.op = "move"
    /\ bd.undo_before # None
    /\ BatchOver(bd)
    /\ \E j \in DoneSteps(bd.run) : bd.plan[j].op = "move"

\* C21: once a move batch performed on a ledger that held a record is over,
\* the ledger no longer holds that record, and the moves an undo would reverse
\* (the record's, last first) are all moves of this batch.
C21_SecondBatchSupersedes ==
    \A bd \in EndedBuilds :
        SecondMoveBatch(bd) =>
            /\ last_undo # bd.undo_before
            /\ last_undo # None =>
                  PairsOf(Reversed(last_undo.moves)) \subseteq PairsOf(MovesOf(bd.plan))

\* a record is being stored in the ledger
Stored == last_undo' # last_undo /\ last_undo' # None

\* the pair is that of a move step of run r whose backend call has returned
MoveReturned(r, pair) ==
    \E j \in DoneSteps(r) :
        /\ runs[r].plan[j].op = "move"
        /\ <<runs[r].plan[j].src, runs[r].plan[j].dst>> = pair

C22_Step ==
    Stored =>
        /\ cur # 0
        /\ runs[cur].caller = "move"
        /\ mpc = "wait"
        /\ \A pair \in PairsOf(last_undo'.moves) : MoveReturned(cur, pair)

\* C22: a record is stored only by the caller of a move batch once
\* _run_plan_with_progress has returned, and at that moment every pair of the
\* record is the (source, destination) of a move step of that batch whose
\* backend call has returned without error.
C22_RecordOnlyOfExecutedMoves == [][C22_Step]_vars

\* the batch of build bd went through its whole plan and its caller has the
\* result
Succeeded(bd) == BatchOver(bd) /\ RanToCompletion(bd.run)

\* the place of move step j among the move steps of the plan
Rank(bd, j) == Cardinality({i \in MoveSteps(bd) : i <= j})

\* the backend was called for step j of run r with move(pair[1], pair[2])
MoveCalled(r, j, pair) ==
    \E n \in 1..Len(runs[r].calls) :
        /\ runs[r].calls[n].i = j
        /\ runs[r].calls[n].ev = "call"
        /\ runs[r].calls[n].prim = "move"
        /\ <<runs[r].calls[n].src, runs[r].calls[n].dst>> = pair

\* C23: after a move batch that went through its whole plan, the ledger holds
\* a record of kind "move" with one pair per move step of the plan, in plan
\* order, each pair being the source and the destination the backend's move
\* was called with (the renamed destination after a rename); delete steps add
\* no pair.
C23_RecordIsMovesOfPlan ==
    \A bd \in EndedBuilds :
        (bd.kind = "copymove" /\ bd.op = "move" /\ Succeeded(bd)) =>
            /\ last_undo # None
            /\ last_undo.kind = "move"
            /\ Len(last_undo.moves) = Cardinality(MoveSteps(bd))
            /\ \A j \in MoveSteps(bd) :
                  /\ last_undo.moves[Rank(bd, j)] = <<bd.plan[j].src, bd.plan[j].dst>>
                  /\ MoveCalled(bd.run, j, last_undo.moves[Rank(bd, j)])
                  /\ bd.decisions[bd.origin[j]] = "rename"
                        => last_undo.moves[Rank(bd, j)][2] # FirstDst(bd, bd.origin[j])

\* a move of a and b went through with a renamed on the way: two pairs
C23_Witness ==
    \E bd \in EndedBuilds :
        /\ bd.kind = "copymove" /\ bd.op = "move" /\ Succeeded(bd)
        /\ Len(bd.srcs) = 2
        /\ bd.decisions[1] = "rename"
        /\ Len(last_undo.moves) = 2

\* build bd is an operation other than a move batch and an undo
NotAMove(bd) ==
    \/ bd.kind = "copymove" /\ bd.op = "copy"
    \/ bd.kind \in {"upload", "download", "delete", "rename"}

\* C24: from the start of a copy batch, an upload, a download, a direct delete
\* or a rename to its end, whatever its outcome, the undo record is the one
\* (or the absence of one) the operation began with.
C24_OnlyMovesTouchLedger ==
    \A bd \in AllBuilds : NotAMove(bd) => last_undo = bd.undo_before

\* a copy batch went through on a ledger that holds the record of a move
C24_Witness ==
    \E bd \in EndedBuilds :
        /\ bd.kind = "copymove" /\ bd.op = "copy"
        /\ Succeeded(bd)
        /\ bd.undo_before = FirstBatch
        /\ last_undo = FirstBatch

(***************************************************************************)
(* Properties of single steps                                              *)
(***************************************************************************)
\* the worker of run r is inside a mkdir_remote or mkdir_local step whose
\* path is a directory already
MkdirOnDir(r) ==
    /\ runs[r].w_pc = "inflight"
    /\ \/ CurOp(r).op = "mkdir_remote" /\ Kind(remote, CurOp(r).dst) = "dir"
       \/ CurOp(r).op = "mkdir_local" /\ Kind(local, CurOp(r).dst) = "dir"

\* the call of the step is not refused; os.makedirs(exist_ok=True) cannot
\* fail at all, while mkdir -p can still fail on its way to the server
C25_State ==
    \A r \in DOMAIN runs :
        MkdirOnDir(r) =>
            /\ ENABLED WorkerReturn(r)
            /\ CurOp(r).op = "mkdir_local" => ~ENABLED WorkerRaise(r)

\* when it returns the filesystems are as they were and the worker is at the
\* top of the loop for the next step, with no finished signal emitted
C25_Step ==
    \A r \in DOMAIN runs :
        (MkdirOnDir(r) /\ runs'[r].calls # runs[r].calls
                       /\ runs'[r].calls[Len(runs'[r].calls)].ev = "return") =>
            /\ remote' = remote
            /\ local' = local
            /\ runs'[r].w_pc = "loop"
            /\ runs'[r].w_i = runs[r].w_i + 1
            /\ runs'[r].finished = <<>>

\* C25: a mkdir_remote or mkdir_local step whose path is an existing
\* directory is not refused (mkdir -p, exist_ok=True): the call returns, the
\* directory and its contents are left as they are, and the worker goes on
\* with the next step.
C25_MkdirOnExistingDir == []C25_State /\ [][C25_Step]_vars

\* mkdir -p of the existing /d/a returned, then os.makedirs of the existing
\* /T/a returned as the next step, and both are still directories with their
\* child
C25_Witness ==
    \E r \in DOMAIN runs :
        /\ Len(runs[r].plan) = 2
        /\ runs[r].plan[1].op = "mkdir_remote" /\ runs[r].plan[2].op = "mkdir_local"
        /\ DoneSteps(r) = {1, 2}
        /\ Kind(remote, <<"d", "a", Child>>) = "file"
        /\ Kind(local, <<"T", "a", Child>>) = "file"

(***************************************************************************)
(* Properties of the session's backend handle                              *)
(***************************************************************************)
\* this step has the GUI thread call the backend: the listing of a refresh,
\* the probes of a builder, a direct removal or rename; or it starts a batch
GuiUsesBackend ==
    \/ \E r \in DOMAIN runs :
          runs[r].refresh = "pending" /\ runs'[r].refresh = "listdir_entries"
    \/ bld.kind # "none" /\ bld.pc = "probe" /\ bld' # bld
    \/ /\ Len(builds') > Len(builds)
       /\ builds'[Len(builds')].kind \in {"delete", "rename"}
    \/ Len(runs') > Len(runs)

\* some batch worker is inside a backend call
WorkerInCall == \E r \in DOMAIN runs : runs[r].w_pc = "inflight"

C26_Step == GuiUsesBackend => ~WorkerInCall

\* C26: while the worker of a batch is inside a backend call, the GUI thread
\* starts no batch and makes no backend call of its own (listing, probe,
\* removal, rename) on the session's handle.
C26_OneRequestInFlight == [][C26_Step]_vars

(***************************************************************************)
(* Properties of cancellation                                              *)
(***************************************************************************)
\* the steps of run r whose primitive has been called
BegunSteps(r) ==
    {runs[r].calls[n].i : n \in {m \in 1..Len(runs[r].calls) : runs[r].calls[m].ev = "call"}}

\* the steps of run r whose primitive has raised
FailedSteps(r) ==
    {runs[r].calls[n].i : n \in {m \in 1..Len(runs[r].calls) : runs[r].calls[m].ev = "raise"}}

\* C27: a cancellation requested while the backend call of step k is in flight
\* (k not the last step) lets that call return or raise; no step after k is
\* begun, and unless step k raised the run finishes with cancelled = True.
C27_CancelDuringStep ==
    \A r \in DOMAIN runs :
        \A q \in 1..Len(runs[r].req) :
            LET k == runs[r].req[q].during
            IN (k # 0 /\ k < Len(runs[r].plan)) =>
                  /\ \A j \in BegunSteps(r) : j <= k
                  /\ (runs[r].finished # <<>> /\ k \notin FailedSteps(r)) =>
                        runs[r].finished[1].cancelled

(***************************************************************************)
(* Properties of plan building: what it leaves alone                       *)
(***************************************************************************)
\* a step of a builder: from its entry to the hand-over of the plan
BuilderStep == bld.kind # "none" \/ bld'.kind # "none"

C28_Step ==
    BuilderStep =>
        /\ remote' = remote
        /\ local' = local
        /\ \A r \in DOMAIN runs' :
              runs'[r].calls = IF r \in DOMAIN runs THEN runs[r].calls ELSE <<>>

\* C28: no step of a plan builder (copy/move, upload, download, undo), from
\* its entry through every probe, conflict answer and rename to its return
\* or the hand-over of the plan to the executor, changes the remote (or the
\* local) filesystem or calls a mutating primitive, a cancelled build included.
C28_BuildIsReadOnly == [][C28_Step]_vars

\* a build planned the overwrite of an existing destination and was then
\* cancelled at the next source: the destination is still there
C28_Witness ==
    \E bd \in EndedBuilds :
        /\ bd.result = "none"
        /\ Answered(bd, "cancel") # {}
        /\ \E i \in Answered(bd, "overwrite") : Kind(remote, FirstDst(bd, i)) # "none"

\* the sources of build bd that the builder decided to plan
Kept(bd) ==
    {k \in 1..Len(bd.decisions) : bd.decisions[k] \in {"none", "rename", "overwrite"}}

\* C29: when the rename box is cancelled (or left empty) for a source, the
\* plan gets no step for that source and nothing else changes: every source
\* planned before or after it has its steps in the plan, and unless a later
\* conflict is answered with cancel the build goes through all its sources
\* and returns its plan.
C29_RenameCancelOmitsOneSource ==
    \A bd \in EndedBuilds :
        \A i \in 1..Len(bd.decisions) :
            bd.decisions[i] = "norename" =>
                /\ NoStepFor(bd, i)
                /\ Answered(bd, "cancel") = {} =>
                      /\ Len(bd.decisions) = Len(bd.srcs)
                      /\ bd.result # "none"
                      /\ \A k \in Kept(bd) : \E j \in 1..Len(bd.plan) : bd.origin[j] = k

\* the rename box was cancelled for the first of two sources and the second
\* was planned
C29_Witness ==
    \E bd \in EndedBuilds :
        /\ Len(bd.srcs) = 2
        /\ bd.decisions = <<"norename", "none">>
        /\ bd.result = "plan"
        /\ bd.plan # <<>>

(***************************************************************************)
(* Properties of the tabs                                                  *)
(***************************************************************************)
\* c and d are the same character up to case
SameLetter(c, d) ==
    \/ c = d
    \/ \E k \in 1..Len(LowerCase) : {c, d} = {LowerCase[k], UpperCase[k]}

\* name ends in sfx, compared case-insensitively
HasSuffix(name, sfx) ==
    /\ Len(sfx) <= Len(name)
    /\ \A k \in 1..Len(sfx) : SameLetter(name[Len(name) - Len(sfx) + k], sfx[k])

\* the categories whose suffix list has a suffix of name
SuffixClasses(name) ==
    {"iso" : x \in {y \in IsoSuffixes : HasSuffix(name, y)}}
    \cup {"archives" : x \in {y \in ArchiveSuffixes : HasSuffix(name, y)}}
    \cup {"slurm" : x \in {y \in SlurmSuffixes : HasSuffix(name, y)}}

\* the entries shown in tab k
Shown(k) == {views[k][n] : n \in 1..Len(views[k])}

\* C30: every entry listed is shown in exactly one of the tabs folders, iso,
\* archives, slurm, other: a directory in folders whatever its name; a
\* non-directory in the tab of the one suffix list that holds a suffix of its
\* name, compared case-insensitively (.iso; .zip .rar .7z .tgz .tar.gz .tar;
\* .slurm .sbatch), and in other if there is none.
C30_CategoryBySuffix ==
    \A e \in Shown("all") :
        LET classes == SuffixClasses(e.name)
            cat == IF e.is_dir THEN "folders"
                   ELSE IF classes = {} THEN "other"
                   ELSE CHOOSE c \in classes : TRUE
        IN /\ Cardinality(classes) <= 1
           /\ e \in Shown(cat)
           /\ \A k \in TabKeys \ {"all", cat} : e \notin Shown(k)

\* the file a.b.TAR.GZ is listed, and shown under archives
C30_Witness ==
    \E e \in Shown("archives") :
        /\ ~e.is_dir
        /\ e.name = <<"a", ".", "b", ".", "T", "A", "R", ".", "G", "Z">>

(***************************************************************************)
(* Properties of undo on an empty ledger                                   *)
(***************************************************************************)
\* no worker of a batch is still running
AllWorkersDone == \A r \in DOMAIN runs : runs[r].w_pc = "done"

C31_Step ==
    (last_undo = None /\ mpc = "idle" /\ bld.kind = "none")
    => /\ bld' = bld
       /\ builds' = builds
       /\ views' = views
       /\ shown_errors' = shown_errors
       /\ Len(runs') = Len(runs)
       /\ last_undo' = None
       /\ AllWorkersDone =>
             /\ remote' = remote
             /\ local' = local
             /\ \A r \in DOMAIN runs : runs'[r].calls = runs[r].calls

\* C31: with no undo record, and the GUI thread in its main loop, no step (an
\* undo_last() among them) opens a conflict or rename box, starts a build or a
\* batch, lists a directory, or changes the record; and once every worker has
\* ended no step calls the backend or changes a filesystem.
C31_UndoOnEmptyIsNoOp == [][C31_Step]_vars

C31_Witness ==
    /\ last_undo = None
    /\ mpc = "idle"
    /\ bld.kind = "none"
    /\ AllWorkersDone
    /\ ENABLED UndoLast
    /\ \E bd \in EndedBuilds : UndoReturned(bd) /\ bd.undo_before = EarlierMove
    /\ Kind(remote, <<"d", "a">>) = "file"

(***************************************************************************)
(* Properties of the plan as the executor holds it                         *)
(***************************************************************************)
C32_Step ==
    \A r \in DOMAIN runs :
        /\ r \in DOMAIN runs'
        /\ runs'[r].plan = runs[r].plan

\* C32: no step of a run (worker, signal handler, dialog, shutdown, the return
\* of _run_plan_with_progress) changes the plan the run was started with: it
\* keeps its steps, their order and their fields, whether the run succeeds,
\* is cancelled or fails.
C32_PlanNeverChanged == [][C32_Step]_vars

C32_Witness ==
    \E r \in DOMAIN runs :
        /\ runs[r].plan = <<StepAt(2), StepAt(3)>>
        /\ runs[r].ret = "false"
        /\ ReturnedOf(runs[r].calls) = 1
        /\ runs[r].st_error # EmptyMsg
        /\ runs[r].w_pc = "done"

(***************************************************************************)
(* Properties of the destinations of a plan                                *)
(***************************************************************************)
\* step j of plan pl writes a destination that is free on filesystem fs, or
\* that the step right before it deletes
FreeOrDeleted(pl, j, fs) ==
    \/ Kind(fs, pl[j].dst) = "none"
    \/ /\ j > 1
       /\ pl[j - 1].op = "delete"
       /\ pl[j - 1].dst = pl[j].dst

\* C33: in every plan of the copy/move builder, each copy or move step targets
\* a destination that does not exist on the remote at build time or that the
\* step immediately before it deletes (also after a rename, whose new
\* destination is probed again).
C33_DestinationFreeOrDeleted ==
    \A bd \in AllBuilds :
        bd.kind = "copymove" =>
            \A j \in 1..Len(bd.plan) :
                bd.plan[j].op \in {"copy", "move"} => FreeOrDeleted(bd.plan, j, remote)

\* step j of plan pl is preceded directly by the delete of its destination
DeletedJustBefore(pl, j) ==
    /\ j > 1
    /\ pl[j - 1].op = "delete"
    /\ pl[j - 1].dst = pl[j].dst

\* C34: undo treats its inverse destinations as the copy/move builder treats
\* its destinations, a renamed destination being probed again: no move step of
\* an inverse plan targets a path that the builder's existence probe finds
\* taken, unless the delete of that path stands immediately before it.
C34_UndoSameProtocol ==
    \A bd \in AllBuilds :
        bd.kind = "undo" =>
            \A j \in MoveSteps(bd) :
                Collides(bd, bd.plan[j].dst) => DeletedJustBefore(bd.plan, j)

\* the filesystem a build plans its writes on
DestFs(bd) == IF bd.kind = "download" THEN local ELSE remote

\* the answers of a build that made skip the sticky policy
StickySkips(bd) ==
    {k \in 1..Len(bd.answers) : bd.answers[k].all /\ bd.answers[k].action = "skip"}

DialogCancelled(r) ==
    \E n \in 1..Len(runs[r].req) : runs[r].req[n].by = "dialog"

\* C37: _run_plan_with_progress has returned True for a run only if the worker
\* went through the whole plan and emitted finished(False, ""), the user did
\* not press cancel, and thread.wait did not time out on a worker still at work.
C37_TrueOnlyAfterCompletion ==
    \A r \in DOMAIN runs :
        runs[r].ret = "true" =>
            /\ RanToCompletion(r)
            /\ ~DialogCancelled(r)
            /\ ~runs[r].timed_out

(***************************************************************************)
(* Properties of a plan's deletes against its sources                      *)
(***************************************************************************)
\* C38: no plan of the copy/move builder or of undo holds a delete step whose
\* target is the source path of a copy or move step of the same plan (so an
\* item pasted into its own directory and overwritten is never deleted).
C38_NoDeleteOfOwnSource ==
    \A bd \in AllBuilds :
        bd.kind \in {"copymove", "undo"} =>
            \A j, k \in 1..Len(bd.plan) :
                (bd.plan[j].op = "delete" /\ bd.plan[k].op \in {"copy", "move"})
                => bd.plan[j].dst # bd.plan[k].src

\* the steps of a plan that write a destination with the content of a source
WriteSteps(bd) ==
    {j \in 1..Len(bd.plan) : bd.plan[j].op \in {"copy", "move", "upload", "download"}}

\* C39: in every plan of the copy/move, upload and download builders, no two
\* copy, move, upload or download steps write the same destination path.
C39_DistinctDestinations ==
    \A bd \in AllBuilds :
        bd.kind \in {"copymove", "upload", "download"} =>
            \A j, k \in WriteSteps(bd) :
                j # k => bd.plan[j].dst # bd.plan[k].dst

(***************************************************************************)
(* Properties of what an undo clears                                       *)
(***************************************************************************)
\* the batch of build bd has moved the destination of pair m back: the
\* inverse move from m's destination was called and has returned
MovedBack(bd, m) ==
    /\ bd.run # 0
    /\ \E n \in 1..Len(runs[bd.run].calls) :
          /\ runs[bd.run].calls[n].ev = "return"
          /\ runs[bd.run].calls[n].prim = "move"
          /\ runs[bd.run].calls[n].src = RStrip(m[2])

\* C40: when an undo has left the ledger empty, every move of the record it
\* began with has been reversed by an inverse move that was executed; an undo
\* in which a pair was skipped, or its rename box cancelled, keeps the record.
C40_ClearedOnlyWhenAllReversed ==
    \A bd \in EndedBuilds :
        (bd.kind = "undo" /\ bd.undo_before # None /\ last_undo = None) =>
            \A r \in 1..Len(bd.undo_before.moves) :
                MovedBack(bd, bd.undo_before.moves[r])

====
